---------------------------- MODULE Spec2Model ----------------------------
(***************************************************************************)
(* SourceFence: rule matching engine, LinkedIn profile parser, alert       *)
(* banner, service worker and popup status, as a state machine.            *)
(*                                                                         *)
(* Text is a sequence of one-character tokens.  Three tokens stand for     *)
(* classes of Unicode characters that the normalizer treats specially:     *)
(*   "~"   a combining diacritical mark (U+0300..U+036F)                   *)
(*   "e~"  a precomposed accented letter (its NFD form is "e" then "~")    *)
(*   "E~"  its upper-case form                                             *)
(* JavaScript null and undefined (a missing field) are the one-element     *)
(* sequences Null and Undef, whose element is no character token.          *)
(***************************************************************************)
EXTENDS Integers, Sequences, FiniteSets, TLC

VARIABLES
    \* ---- inputs and results of direct calls of the exposed functions
    str,            \* text handed to normalize / normalizeCompanyName
    candidate,      \* {location, company} handed to the matcher
    matchesIn,      \* match list handed to resolveHighestSeverity
    ret,            \* what the last direct call returned
    \* ---- matcher module state (matcher.js:92-95)
    locationRules,
    companyRules,
    rulesLoaded,
    \* ---- clock and browser time zone
    now,            \* Date.now(), in hours since the epoch (UTC)
    tz,             \* local time = UTC + tz hours
    \* ---- the page in the tab
    url,            \* window.location.href
    dom,            \* what the document holds
    events,         \* navigations, document changes and scrolls so far
    \* ---- content scripts of the tab
    parser,         \* the fields of LinkedInParser and its debounce timer
    annotator,      \* the variables of the search annotator and its timers
    loads,          \* loadRules() calls whose storage read has not returned
    shows,          \* SourceFenceBanner.show() calls awaiting loadSettings
    banner,         \* severity of the banner on the page, or "none"
    \* ---- the extension outside the tab
    outbox,         \* chrome.runtime.sendMessage messages not yet delivered
    inbox,          \* chrome.tabs.sendMessage messages on their way to the tab
    badge,          \* toolbar badge of the tab: severity, or "none"
    storage,        \* chrome.storage.local
    popup,          \* status card of the popup, or "closed"
    \* ---- timing of the search annotator's throttle
    throttle,       \* clock in ms, lastThrottleRun and the trailing timeout
    \* ---- the backend sync of the service worker
    cache,          \* the keys of chrome.storage.local the sync works on
    client,         \* _config and _session of SupabaseClient
    server,         \* the Supabase project: its rules and the tokens it takes
    sync,           \* the performBackendSync() in progress and its two fetches
    popupRules,     \* the popup's in-memory rule lists, or "closed"
    notified        \* RULES_UPDATED rounds of notifyLinkedInTabs so far

inputVars == <<str, candidate, matchesIn>>

matcherVars == <<locationRules, companyRules, rulesLoaded>>

clockVars == <<now, tz>>

pageVars == <<url, dom, events>>

contentVars == <<parser, annotator, loads, shows, banner>>

extensionVars == <<outbox, inbox, badge, storage, popup>>

sysVars == <<pageVars, contentVars, extensionVars>>

\* what the steps of the tab model without timing leave alone
syncVars == <<cache, client, server, sync, popupRules, notified>>

restVars == <<throttle, syncVars>>

vars == <<inputVars, ret, matcherVars, clockVars, sysVars, restVars>>

-----------------------------------------------------------------------------
(* JavaScript values *)

Null == <<"null">>

Undef == <<"undefined">>

IsString(v) == v # Null /\ v # Undef

\* !v for a value that is a string, null or undefined
Falsy(v) == v = Null \/ v = Undef \/ v = <<>>

Min(S) == CHOOSE x \in S : \A y \in S : x <= y

Max(S) == CHOOSE x \in S : \A y \in S : x >= y

-----------------------------------------------------------------------------
(* Characters *)

LowerChars ==
    <<"a", "b", "c", "d", "e", "f", "g", "h", "i", "j", "k", "l", "m",
      "n", "o", "p", "q", "r", "s", "t", "u", "v", "w", "x", "y", "z">>

UpperChars ==
    <<"A", "B", "C", "D", "E", "F", "G", "H", "I", "J", "K", "L", "M",
      "N", "O", "P", "Q", "R", "S", "T", "U", "V", "W", "X", "Y", "Z">>

Mark == "~"

\* String.prototype.trim and the regex class \s
IsSpace(c) == c = " "

\* the regex class \w, on lower-cased text
IsWordChar(c) == \E i \in 1..Len(LowerChars) : LowerChars[i] = c

ToLowerChar(c) ==
    IF c = "E~" THEN "e~"
    ELSE IF \E i \in 1..Len(UpperChars) : UpperChars[i] = c
         THEN LowerChars[CHOOSE i \in 1..Len(UpperChars) : UpperChars[i] = c]
         ELSE c

\* canonical decomposition of one character
Decompose(c) == IF c = "e~" THEN <<"e", Mark>> ELSE <<c>>

-----------------------------------------------------------------------------
(* String primitives *)

Trim(s) ==
    LET keep == {i \in 1..Len(s) : ~IsSpace(s[i])}
    IN  IF keep = {} THEN <<>> ELSE SubSeq(s, Min(keep), Max(keep))

ToLowerCase(s) == [i \in 1..Len(s) |-> ToLowerChar(s[i])]

RECURSIVE NFD(_)
NFD(s) == IF s = <<>> THEN <<>> ELSE Decompose(Head(s)) \o NFD(Tail(s))

NotMark(c) == c # Mark

StripMarks(s) == SelectSeq(s, NotMark)

\* t occurs in s at position i
OccursAt(s, t, i) ==
    /\ i >= 1
    /\ i + Len(t) - 1 <= Len(s)
    /\ \A k \in 1..Len(t) : s[i + k - 1] = t[k]

\* s.indexOf(t) !== -1
Contains(s, t) == \E i \in 1..(Len(s) + 1) : OccursAt(s, t, i)

\* s.split(',')
RECURSIVE Split(_)
Split(s) ==
    LET commas == {i \in 1..Len(s) : s[i] = ","}
    IN  IF commas = {} THEN <<s>>
        ELSE <<SubSeq(s, 1, Min(commas) - 1)>>
                 \o Split(SubSeq(s, Min(commas) + 1, Len(s)))

-----------------------------------------------------------------------------
(* Normalization helpers *)

normalize(s) ==
    IF ~IsString(s) THEN <<>> ELSE StripMarks(NFD(ToLowerCase(Trim(s))))

COMPANY_SUFFIXES ==
    << <<"i", "n", "c", "o", "r", "p", "o", "r", "a", "t", "e", "d">>,
       <<"i", "n", "c", ".">>,
       <<"i", "n", "c">>,
       <<"l", "i", "m", "i", "t", "e", "d">>,
       <<"l", "t", "d", ".">>,
       <<"l", "t", "d">>,
       <<"c", "o", "r", "p", "o", "r", "a", "t", "i", "o", "n">>,
       <<"c", "o", "r", "p", ".">>,
       <<"c", "o", "r", "p">>,
       <<"l", "l", "c">>,
       <<"l", ".", "l", ".", "c", ".">>,
       <<"g", "m", "b", "h">>,
       <<"a", "g">>,
       <<"s", ".", "a", ".">>,
       <<"p", "t", "y">>,
       <<"p", "l", "c">>,
       <<"c", "o", ".">>,
       <<"c", "o", "m", "p", "a", "n", "y">> >>

\* \b(suffix)\s*$ matches s from position i on
SuffixMatchAt(s, i) ==
    /\ i \in 1..Len(s)
    /\ (i = 1 \/ ~IsWordChar(s[i - 1]))
    /\ \E k \in 1..Len(COMPANY_SUFFIXES) :
          /\ OccursAt(s, COMPANY_SUFFIXES[k], i)
          /\ \A j \in (i + Len(COMPANY_SUFFIXES[k]))..Len(s) : IsSpace(s[j])

\* s.replace(suffixPattern, ''): the leftmost match is cut off
ReplaceSuffix(s) ==
    LET at == {i \in 1..Len(s) : SuffixMatchAt(s, i)}
    IN  IF at = {} THEN s ELSE SubSeq(s, 1, Min(at) - 1)

RECURSIVE StripSuffixes(_)
StripSuffixes(n) ==
    LET m == Trim(ReplaceSuffix(n))
    IN  IF m = n THEN n ELSE StripSuffixes(m)

normalizeCompanyName(s) == StripSuffixes(normalize(s))

-----------------------------------------------------------------------------
(* Rules and matches.  A rule is a record                                    *)
(*   [pattern, severity, message, active, expires_at]                        *)
(* pattern is text or Undef; severity and message are tokens ("undefined"    *)
(* when the field is missing); active is "true", "false" or "undefined";     *)
(* expires_at is NoExpiry (field missing or empty), BadExpiry (a string      *)
(* Date cannot parse) or DateOnly(d) (the date-only string of day d).        *)

NoExpiry == [kind |-> "none"]

BadExpiry == [kind |-> "invalid"]

DateOnly(d) == [kind |-> "date", day |-> d]

SEVERITY_RANK(sev) ==
    CASE sev = "red" -> 2
      [] sev = "amber" -> 1
      [] OTHER -> 0

DefaultMessage == "No restrictions. Source freely."

\* !rule.active is false
ActiveTruthy(rule) == rule.active = "true"

\* the local calendar day of the instant t (hours, UTC)
LocalDay(t) == (t + tz) \div 24

\* new Date('YYYY-MM-DD') is UTC midnight of that day; setHours(23,59,59,999)
\* moves it to the last instant of the LOCAL day that UTC midnight falls in
ExpiryInstantEnd(d) == (LocalDay(d * 24) + 1) * 24 - tz

isExpired(rule) ==
    /\ rule.expires_at.kind = "date"
    /\ now >= ExpiryInstantEnd(rule.expires_at.day)

MatchOf(rule) == [severity |-> rule.severity, message |-> rule.message]

NoThrow(ms) == [threw |-> FALSE, matches |-> ms]

Thrown == [threw |-> TRUE, matches |-> <<>>]

\* AlternativeMatches that gives up after the alternative it starts at
AlternativeMatches_FirstOnly(normLocation, alternatives, j) ==
    /\ j <= Len(alternatives)
    /\ normalize(alternatives[j]) # <<>>
    /\ Contains(normLocation, normalize(alternatives[j]))

\* the inner loop of matchLocation over the alternatives, from alternative j
RECURSIVE AlternativeMatches(_, _, _)
AlternativeMatches(normLocation, alternatives, j) ==
    IF j > Len(alternatives) THEN FALSE
    ELSE LET normAlt == normalize(alternatives[j])
         IN  IF normAlt = <<>>
             THEN AlternativeMatches(normLocation, alternatives, j + 1)
             ELSE IF Contains(normLocation, normAlt)
                  THEN TRUE
                  ELSE AlternativeMatches(normLocation, alternatives, j + 1)

\* the outer loop of matchLocation, from rule i; rule.pattern.split throws a
\* TypeError when the pattern is not a string
RECURSIVE MatchLocationLoop(_, _, _, _)
MatchLocationLoop(normLocation, rules, i, matches) ==
    IF i > Len(rules) THEN NoThrow(matches)
    ELSE LET rule == rules[i]
         IN  IF ~ActiveTruthy(rule)
             THEN MatchLocationLoop(normLocation, rules, i + 1, matches)
             ELSE IF ~IsString(rule.pattern)
             THEN Thrown
             ELSE IF AlternativeMatches(normLocation, Split(rule.pattern), 1)
             THEN MatchLocationLoop(normLocation, rules, i + 1,
                                    Append(matches, MatchOf(rule)))
             ELSE MatchLocationLoop(normLocation, rules, i + 1, matches)

matchLocation(location, rules) ==
    IF Falsy(location) THEN NoThrow(<<>>)
    ELSE MatchLocationLoop(normalize(location), rules, 1, <<>>)

\* MatchCompanyLoop with containment in one direction only
RECURSIVE MatchCompanyLoop_OneWay(_, _, _, _)
MatchCompanyLoop_OneWay(normCompany, rules, i, matches) ==
    IF i > Len(rules) THEN matches
    ELSE LET rule == rules[i]
             normPattern == normalizeCompanyName(rule.pattern)
         IN  IF ~ActiveTruthy(rule) \/ isExpired(rule) \/ normPattern = <<>>
             THEN MatchCompanyLoop_OneWay(normCompany, rules, i + 1, matches)
             ELSE IF Contains(normCompany, normPattern)
             THEN MatchCompanyLoop_OneWay(normCompany, rules, i + 1,
                                          Append(matches, MatchOf(rule)))
             ELSE MatchCompanyLoop_OneWay(normCompany, rules, i + 1, matches)

RECURSIVE MatchCompanyLoop(_, _, _, _)
MatchCompanyLoop(normCompany, rules, i, matches) ==
    IF i > Len(rules) THEN matches
    ELSE LET rule == rules[i]
             normPattern == normalizeCompanyName(rule.pattern)
         IN  IF ~ActiveTruthy(rule) \/ isExpired(rule) \/ normPattern = <<>>
             THEN MatchCompanyLoop(normCompany, rules, i + 1, matches)
             ELSE IF \/ Contains(normCompany, normPattern)
                     \/ Contains(normPattern, normCompany)
             THEN MatchCompanyLoop(normCompany, rules, i + 1,
                                   Append(matches, MatchOf(rule)))
             ELSE MatchCompanyLoop(normCompany, rules, i + 1, matches)

matchCompany(company, rules) ==
    IF Falsy(company) THEN <<>>
    ELSE MatchCompanyLoop(normalizeCompanyName(company), rules, 1, <<>>)

\* ResolveLoop with >= for >: among equal ranks the last match wins
RECURSIVE ResolveLoop_LastWins(_, _, _)
ResolveLoop_LastWins(matches, i, highest) ==
    IF i > Len(matches) THEN highest
    ELSE IF SEVERITY_RANK(matches[i].severity) >= SEVERITY_RANK(highest.severity)
         THEN ResolveLoop_LastWins(matches, i + 1, matches[i])
         ELSE ResolveLoop_LastWins(matches, i + 1, highest)

RECURSIVE ResolveLoop(_, _, _)
ResolveLoop(matches, i, highest) ==
    IF i > Len(matches) THEN highest
    ELSE IF SEVERITY_RANK(matches[i].severity) > SEVERITY_RANK(highest.severity)
         THEN ResolveLoop(matches, i + 1, matches[i])
         ELSE ResolveLoop(matches, i + 1, highest)

resolveHighestSeverity(matches) ==
    IF Len(matches) = 0
    THEN [severity |-> "green", message |-> DefaultMessage]
    ELSE LET highest == ResolveLoop(matches, 2, matches[1])
         IN  [severity |-> highest.severity, message |-> highest.message]

\* how the promise returned by checkCandidate / matchOnly settles
Resolved(result) ==
    [rejected |-> FALSE, severity |-> result.severity, message |-> result.message]

Rejected == [rejected |-> TRUE, severity |-> "none", message |-> "none"]

\* checkCandidateResult without the company matches
checkCandidateResult_LocationOnly(cand, locRules, comRules) ==
    LET locationMatches == matchLocation(cand.location, locRules)
    IN  IF locationMatches.threw THEN Rejected
        ELSE Resolved(resolveHighestSeverity(locationMatches.matches))

\* the body of checkCandidate's then-callback, up to the result it computes
checkCandidateResult(cand, locRules, comRules) ==
    LET locationMatches == matchLocation(cand.location, locRules)
    IN  IF locationMatches.threw THEN Rejected
        ELSE Resolved(resolveHighestSeverity(
                 locationMatches.matches \o matchCompany(cand.company, comRules)))

\* the body of matchOnly's then-callback
matchOnlyResult(cand, locRules, comRules) ==
    LET locationMatches == matchLocation(cand.location, locRules)
    IN  IF locationMatches.threw THEN Rejected
        ELSE Resolved(resolveHighestSeverity(
                 locationMatches.matches \o matchCompany(cand.company, comRules)))

-----------------------------------------------------------------------------
(* Sample texts: the patterns and candidate values of the README, of the     *)
(* built-in default rules and of the documented examples.                    *)

T_India == <<"I", "n", "d", "i", "a">>

T_Poland == <<"P", "o", "l", "a", "n", "d">>

T_IndiaBengaluru ==
    <<"I", "n", "d", "i", "a", ",", " ", "B", "e", "n", "g", "a", "l", "u",
      "r", "u">>

T_BlankAlternatives == <<" ", ",", " ">>

T_Quebec == <<"Q", "u", "e", "b", "e", "c">>

T_BengaluruKarnatakaIndia ==
    <<"B", "e", "n", "g", "a", "l", "u", "r", "u", ",", " ", "K", "a", "r",
      "n", "a", "t", "a", "k", "a", ",", " ", "I", "n", "d", "i", "a">>

T_Bengaluru == <<"B", "e", "n", "g", "a", "l", "u", "r", "u">>

T_WarsawPoland ==
    <<"W", "a", "r", "s", "a", "w", ",", " ", "P", "o", "l", "a", "n", "d">>

T_Indianapolis ==
    <<"I", "n", "d", "i", "a", "n", "a", "p", "o", "l", "i", "s", ",", " ",
      "U", "S", "A">>

T_QuebecAccented == <<"Q", "u", "E~", "b", "e", "c">>

T_Blank == <<" ", " ">>

T_Berlin == <<"B", "e", "r", "l", "i", "n">>

T_Acme == <<"A", "c", "m", "e">>

T_AcmeCorp == <<"A", "c", "m", "e", " ", "C", "o", "r", "p">>

T_AcmeCorporation ==
    <<"A", "c", "m", "e", " ", "C", "o", "r", "p", "o", "r", "a", "t", "i",
      "o", "n">>

T_AcmeGlobalHoldings ==
    <<"A", "c", "m", "e", " ", "G", "l", "o", "b", "a", "l", " ", "H", "o",
      "l", "d", "i", "n", "g", "s">>

T_AcmeWorldwide ==
    <<"A", "c", "m", "e", " ", "W", "o", "r", "l", "d", "w", "i", "d", "e">>

T_AcmeWorldwideHoldingsInc ==
    <<"A", "c", "m", "e", " ", "W", "o", "r", "l", "d", "w", "i", "d", "e",
      " ", "H", "o", "l", "d", "i", "n", "g", "s", " ", "I", "n", "c">>

T_Inc == <<"I", "n", "c">>

T_Globex == <<"G", "l", "o", "b", "e", "x">>

T_GlobexLLC == <<"G", "l", "o", "b", "e", "x", " ", "L", "L", "C">>

T_Initech == <<"I", "n", "i", "t", "e", "c", "h">>

-----------------------------------------------------------------------------
(* Bounds of the model *)

\* longest text handed to the normalizers
MaxLen == 4

\* longest match list handed to resolveHighestSeverity
MaxMatches == 3

\* longest rule list
MaxRules == 2

\* the hour at which the clock stops
LastHour == 288

SeqsUpTo(S, n) == UNION {[1..k -> S] : k \in 0..n}

Range(f) == {f[i] : i \in DOMAIN f}

-----------------------------------------------------------------------------
(* Pages.  The tab shows one of five addresses of www.linkedin.com; Href     *)
(* gives the part of window.location.href after the host.                    *)

Pages == {"feed", "inA", "inB", "search", "talentSearch"}

Href(u) ==
    CASE u = "feed" -> <<"/", "f", "e", "e", "d", "/">>
      [] u = "inA" -> <<"/", "i", "n", "/", "a", "/">>
      [] u = "inB" -> <<"/", "i", "n", "/", "b", "/">>
      [] u = "search" ->
            <<"/", "s", "e", "a", "r", "c", "h", "/", "r", "e", "s", "u", "l",
              "t", "s", "/">>
      [] u = "talentSearch" ->
            <<"/", "t", "a", "l", "e", "n", "t", "/", "s", "e", "a", "r", "c",
              "h">>

P_in == <<"/", "i", "n", "/">>

P_talent == <<"/", "t", "a", "l", "e", "n", "t", "/">>

P_sales == <<"/", "s", "a", "l", "e", "s", "/">>

P_search == <<"/", "s", "e", "a", "r", "c", "h", "/">>

P_talentProfile == P_talent \o <<"p", "r", "o", "f", "i", "l", "e">>

P_profile == <<"/", "p", "r", "o", "f", "i", "l", "e">>

P_talentSearch == P_talent \o <<"s", "e", "a", "r", "c", "h">>

P_talentSearchProfile == P_talentSearch \o P_profile

P_talentHire == P_talent \o <<"h", "i", "r", "e">>

P_talentHireSearch == P_talentHire \o <<"/", "s", "e", "a", "r", "c", "h">>

P_salesSearch == P_sales \o <<"s", "e", "a", "r", "c", "h">>

P_searchResults == P_search \o <<"r", "e", "s", "u", "l", "t", "s">>

\* the pages whose load injects the content scripts
ContentScriptMatches(u) ==
    \E prefix \in {P_in, P_talent, P_sales, P_search} :
        OccursAt(Href(u), prefix, 1)

PROFILE_URL_PATTERNS == {P_in, P_talent, P_sales}

isProfilePage(u) == \E pat \in PROFILE_URL_PATTERNS : Contains(Href(u), pat)

\* "null" when the page is of no profile variant
detectVariant(u) ==
    LET href == Href(u)
    IN  IF \/ Contains(href, P_talentProfile)
           \/ Contains(href, P_talentSearchProfile)
        THEN "recruiter"
        ELSE IF \/ Contains(href, P_talentSearch)
                \/ Contains(href, P_talentHireSearch)
                \/ Contains(href, P_salesSearch)
                \/ Contains(href, P_searchResults)
        THEN "null"
        ELSE IF Contains(href, P_talent) THEN "recruiter"
        ELSE IF Contains(href, P_sales) THEN "salesNav"
        ELSE IF Contains(href, P_in) THEN "standard"
        ELSE "null"

isSearchPage(u) ==
    LET href == Href(u)
    IN  /\ ~Contains(href, P_talentProfile)
        /\ \/ Contains(href, P_talentSearch)
           \/ Contains(href, P_talentHire) /\ ~Contains(href, P_profile)
           \/ Contains(href, P_salesSearch)
           \/ Contains(href, P_searchResults)

\* LINKEDIN_URL_PATTERNS of the service worker
isLinkedInProfileUrl(u) ==
    \E prefix \in {P_in, P_talent, P_sales} : OccursAt(Href(u), prefix, 1)

\* the popup's test that the content script runs on the page
PopupIsLinkedIn(u) ==
    \E pat \in {P_in, P_talent, P_sales, P_search} : Contains(Href(u), pat)

isSearchPageUrl(u) ==
    LET href == Href(u)
    IN  \/ Contains(href, P_talentSearch)
        \/ Contains(href, P_talentHire) /\ ~Contains(href, P_profile)
        \/ Contains(href, P_salesSearch)
        \/ Contains(href, P_searchResults)

-----------------------------------------------------------------------------
(* Direct calls of the functions the matcher exposes (matcher.js:401-412).   *)
(* ret records the function called and what it returned.                     *)

NoCall == [fn |-> "none", out |-> <<>>]

NoCandidate == [location |-> Null, company |-> Null]

MakeRule(pattern, severity, message, active, expires_at) ==
    [pattern |-> pattern, severity |-> severity, message |-> message,
     active |-> active, expires_at |-> expires_at]

-----------------------------------------------------------------------------
(* Built-in rules and stored state *)

\* the day the built-in company rule names as its expires_at
DefaultExpiryDay == 30

DEFAULT_LOCATION_RULES ==
    << MakeRule(T_India, "red", "India hub", "true", NoExpiry),
       MakeRule(T_Poland, "amber", "Poland entity", "true", NoExpiry) >>

DEFAULT_COMPANY_RULES ==
    << MakeRule(T_AcmeCorp, "red", "Acme non-solicit", "true",
                DateOnly(DefaultExpiryDay)) >>

DEFAULT_SETTINGS == [enabled |-> TRUE, show_green_alerts |-> TRUE]

NoParsedData == [status |-> "null"]

\* chrome.storage.local once the install handler has run.  The keys
\* sourcefence_current_profile and sourcefence_current_match, which the
\* service worker writes and no status path reads, are not kept.
InstalledStorage ==
    [settings |-> DEFAULT_SETTINGS,
     locationRules |-> <<>>,
     companyRules |-> <<>>]

\* what chrome.storage.local.get gives for a rule list that was never stored
NotStored == << [stored |-> FALSE] >>

IsArray(v) == v # NotStored

-----------------------------------------------------------------------------
(* The document.  location and company are what the extraction strategies of *)
(* the page's variant read from it (Null when none of them finds anything);  *)
(* cards are the result cards of a search page, in document order.           *)

EmptyDocument == [location |-> Null, company |-> Null, cards |-> <<>>]

-----------------------------------------------------------------------------
(* LinkedInParser *)

ParserFresh ==
    [initialized |-> FALSE, observer |-> FALSE, popstate |-> FALSE,
     urlPollTimer |-> FALSE, debouncedParse |-> FALSE, timer |-> FALSE,
     lastUrl |-> "null", lastParsedData |-> NoParsedData]

\* LinkedInParser.init() on page u
LinkedInParser_init(p, u) ==
    IF p.initialized THEN p
    ELSE IF ~isProfilePage(u)
    THEN [p EXCEPT !.urlPollTimer = TRUE, !.initialized = TRUE]
    ELSE [p EXCEPT !.lastUrl = u, !.debouncedParse = TRUE, !.observer = TRUE,
                   !.popstate = TRUE, !.urlPollTimer = TRUE, !.timer = TRUE,
                   !.initialized = TRUE]

\* LinkedInParser._checkUrlChange() on page u
LinkedInParser_checkUrlChange(p, u) ==
    IF u = p.lastUrl THEN p
    ELSE LET q == [p EXCEPT !.lastUrl = u, !.lastParsedData = NoParsedData]
         IN  IF ~isProfilePage(u) THEN q
             ELSE IF ~q.observer
             THEN LinkedInParser_init([q EXCEPT !.initialized = FALSE], u)
             ELSE IF q.debouncedParse THEN [q EXCEPT !.timer = TRUE]
             ELSE q

\* LinkedInParser._onMutation() on page u
LinkedInParser_onMutation(p, u) ==
    IF isProfilePage(u) /\ p.debouncedParse THEN [p EXCEPT !.timer = TRUE]
    ELSE p

\* result.location || null
OrNull(v) == IF Falsy(v) THEN Null ELSE v

ParseFailed(u) == [status |-> "failed", url |-> u]

\* SameAsLast that takes any earlier success for the same data
SameAsLast_AnySuccess(last, location, company) == last.status = "success"

\* parse(): the pass found exactly what the last successful pass found
SameAsLast(last, location, company) ==
    /\ last.status = "success"
    /\ last.location = location
    /\ last.company = company

ParseSuccess(location, company, u) ==
    [status |-> "success", location |-> location, company |-> company,
     url |-> u]

Message(type, data) == [type |-> type, data |-> data]

-----------------------------------------------------------------------------
(* Matcher entry points.  A call made while rulesLoaded is false starts a    *)
(* loadRules() of its own and runs its then-callback when that returns; a    *)
(* call made after runs it in the same turn.  Each operator gives the queues *)
(* as the call leaves them.                                                  *)

\* no card: the call waiting is not a probe of the search annotator
NoCard == [id |-> 0]

PendingLoad(then, cand, card) ==
    [then |-> then, candidate |-> cand, card |-> card]

\* the then-callback of checkCandidate under the rules locRules, comRules:
\* banner.show(result) and the MATCH_RESULT message, unless matching threw;
\* result is how the promise settles
ThenCheckCandidate(cand, locRules, comRules, sh, ob) ==
    LET Then(r) ==
            LET result == [severity |-> r.severity, message |-> r.message]
            IN  IF r.rejected
                THEN [result |-> r, shows |-> sh, outbox |-> ob]
                ELSE [result |-> r,
                      shows |-> Append(sh, result),
                      outbox |-> Append(ob, Message("MATCH_RESULT", result))]
    IN  Then(checkCandidateResult(cand, locRules, comRules))

checkCandidate(cand, ld, sh, ob) ==
    IF rulesLoaded
    THEN LET Returned(after) ==
                 [loads |-> ld, shows |-> after.shows, outbox |-> after.outbox]
         IN  Returned(ThenCheckCandidate(cand, locationRules, companyRules,
                                         sh, ob))
    ELSE [loads |-> Append(ld, PendingLoad("checkCandidate", cand, NoCard)),
          shows |-> sh, outbox |-> ob]

\* the storage callback of loadRules: the rule lists the matcher holds after
LoadedRules(st) ==
    LET locRules == st.locationRules
        comRules == st.companyRules
        storageEmpty ==
            /\ (~IsArray(locRules) \/ Len(locRules) = 0)
            /\ (~IsArray(comRules) \/ Len(comRules) = 0)
    IN  IF storageEmpty
        THEN [locationRules |-> DEFAULT_LOCATION_RULES,
              companyRules |-> DEFAULT_COMPANY_RULES]
        ELSE [locationRules |-> IF IsArray(locRules) THEN locRules ELSE <<>>,
              companyRules |-> IF IsArray(comRules) THEN comRules ELSE <<>>]

-----------------------------------------------------------------------------
(* Search annotator: probing one result card.  A card of the document is     *)
(*   [id, rendered, location, company, allCompanies, pastCompanies,          *)
(*    annotated, badges]                                                     *)
(* rendered: its text has MIN_CARD_TEXT_LENGTH characters or more; location, *)
(* company, allCompanies, pastCompanies: what parseCard reads from it;       *)
(* annotated: data-sourcefence-annotated is 'done'; badges: the severities   *)
(* of the badges injected into it.                                           *)

\* annotateCards prefers matcher.matchOnly to matcher.checkCandidate
MatchFn_CheckCandidate == "checkCandidate"

MatchFn == "matchOnly"

isPastCompany(company, pastCompanies) ==
    /\ ~Falsy(company)
    /\ \E i \in 1..Len(pastCompanies) :
          Trim(ToLowerCase(pastCompanies[i])) = Trim(ToLowerCase(company))

\* one call of matchFn once the rules are loaded: how its promise settles and
\* what the call adds to the pending banner calls and the messages
Probe(fn, cand, locRules, comRules, sh, ob) ==
    IF fn = "matchOnly"
    THEN [result |-> matchOnlyResult(cand, locRules, comRules),
          shows |-> sh, outbox |-> ob]
    ELSE ThenCheckCandidate(cand, locRules, comRules, sh, ob)

\* checkAdditionalCompanies from company j on: every company is probed, the
\* highest severity is kept, and one rejection rejects the whole
RECURSIVE AdditionalFrom(_, _, _, _, _, _, _)
AdditionalFrom(companies, j, location, fn, locRules, comRules, acc) ==
    IF j > Len(companies) THEN acc
    ELSE LET Merged(pr) ==
                 LET higher == /\ ~pr.result.rejected
                               /\ ~acc.result.rejected
                               /\ SEVERITY_RANK(pr.result.severity)
                                    > SEVERITY_RANK(acc.result.severity)
                 IN  [result |-> IF pr.result.rejected THEN Rejected
                                 ELSE IF higher THEN pr.result
                                 ELSE acc.result,
                      shows |-> pr.shows, outbox |-> pr.outbox]
         IN  AdditionalFrom(companies, j + 1, location, fn, locRules, comRules,
                 Merged(Probe(fn, [location |-> location,
                                   company |-> companies[j]],
                              locRules, comRules, acc.shows, acc.outbox)))

\* the promise chain of annotateSingleCard for a card with data, run under
\* loaded rules
SettleCard(card, fn, locRules, comRules, sh, ob) ==
    LET companyToCheck ==
            IF isPastCompany(card.company, card.pastCompanies) THEN Null
            ELSE card.company
        NotPast(co) == ~isPastCompany(co, card.pastCompanies)
        currentCompanies == SelectSeq(card.allCompanies, NotPast)
        Then(primary) ==
            IF /\ ~primary.result.rejected
               /\ primary.result.severity = "green"
               /\ Len(currentCompanies) > 0
            THEN AdditionalFrom(currentCompanies, 1, card.location, fn,
                                locRules, comRules, primary)
            ELSE primary
    IN  Then(Probe(fn, [location |-> card.location,
                        company |-> companyToCheck],
                   locRules, comRules, sh, ob))

\* injectBadge, unless the chain rejected or resolved to green
WithBadge(card, result) ==
    IF result.rejected \/ result.severity = "green" THEN card
    ELSE [card EXCEPT !.badges = Append(@, result.severity)]

HasData(card) ==
    \/ ~Falsy(card.location)
    \/ ~Falsy(card.company)
    \/ Len(card.allCompanies) # 0

-----------------------------------------------------------------------------
(* Search annotator: its variables and annotateCards.  The annotator record  *)
(* is [active, lastUrl, retryCount, timers, observer, rescan]: active when   *)
(* init() ran on a search page and installed the scroll listener and the URL *)
(* poll; timers is the set of one-shot timeouts pending, by what set them.   *)

MAX_RETRIES == 5

\* the annotator once its script has run on page u
annotator_init(u) ==
    [active |-> isSearchPage(u),
     lastUrl |-> u,
     retryCount |-> 0,
     timers |-> IF isSearchPage(u) THEN {"initial"} ELSE {},
     observer |-> FALSE,
     rescan |-> FALSE]

\* annotateSingleCard for card i of st.cards; st carries the cards, the
\* queues and the record of the last probe
annotateSingleCard(st, i, matchFn) ==
    LET card == st.cards[i]
        marked == [card EXCEPT !.annotated = TRUE]
    IN  IF card.annotated \/ ~HasData(card) THEN st
        ELSE IF ~rulesLoaded
        THEN [st EXCEPT
                 !.cards[i] = marked,
                 !.loads = Append(@, PendingLoad("annotateSingleCard",
                               [location |-> card.location,
                                company |-> card.company], marked))]
        ELSE LET Then(settled) ==
                     [st EXCEPT
                         !.cards[i] = WithBadge(marked, settled.result),
                         !.shows = settled.shows,
                         !.outbox = settled.outbox,
                         !.ret = [fn |-> "annotateSingleCard", card |-> card,
                                  out |-> settled.result]]
             IN  Then(SettleCard(card, matchFn, locationRules, companyRules,
                                 st.shows, st.outbox))

\* the loop of annotateCards over the cards, from card i: a card is pending
\* when it is not annotated and is rendered
RECURSIVE AnnotatePending(_, _, _)
AnnotatePending(st, i, matchFn) ==
    IF i > Len(st.cards) THEN st
    ELSE IF st.cards[i].annotated \/ ~st.cards[i].rendered
    THEN AnnotatePending(st, i + 1, matchFn)
    ELSE AnnotatePending(annotateSingleCard(st, i, matchFn), i + 1, matchFn)

\* annotateCards() on page u; st also carries the annotator record
annotateCards(st, u) ==
    IF ~isSearchPage(u) THEN st
    ELSE IF Len(st.cards) = 0
    THEN IF st.annotator.retryCount < MAX_RETRIES
         THEN [st EXCEPT !.annotator.retryCount = @ + 1,
                         !.annotator.timers = @ \cup {"retry"}]
         ELSE st
    ELSE AnnotatePending([st EXCEPT !.annotator.retryCount = 0], 1, MatchFn)

\* cleanupAnnotations: badges removed, annotation attributes cleared
cleanupAnnotations(cards) ==
    [i \in 1..Len(cards) |->
        [cards[i] EXCEPT !.annotated = FALSE, !.badges = <<>>]]

\* the annotator's checkUrlChange() on page u
annotator_checkUrlChange(st, u) ==
    IF u = st.annotator.lastUrl THEN st
    ELSE LET a == [st.annotator EXCEPT !.lastUrl = u, !.retryCount = 0]
         IN  [st EXCEPT
                 !.cards = cleanupAnnotations(@),
                 !.annotator =
                     IF isSearchPage(u)
                     THEN [a EXCEPT !.timers = @ \cup {"urlChange"}]
                     ELSE [a EXCEPT !.rescan = FALSE]]

-----------------------------------------------------------------------------
(* Service worker and popup *)

\* updateBadge: the severity the toolbar badge shows afterwards
updateBadge(severity) ==
    IF severity \in {"red", "amber"} THEN severity ELSE "none"

PopupClosed == [card |-> "closed", primary |-> "none"]

setStatusNeutral(text) == [card |-> "neutral", primary |-> text]

\* setStatusSeverity changes the card and leaves the primary line
setStatusSeverity(status, severity) == [status EXCEPT !.card = severity]

\* updateStatus(data): data.error is a field no sender sets; a record without
\* a severity field is shown as green
updateStatus(status, data) ==
    IF data = NoParsedData
    THEN setStatusNeutral("Navigate to a LinkedIn profile to see status")
    ELSE IF "error" \in DOMAIN data
    THEN setStatusNeutral("Unable to read profile data")
    ELSE setStatusSeverity(
             [status EXCEPT !.primary = "profile"],
             IF "severity" \in DOMAIN data THEN data.severity ELSE "green")

\* setStatusSearch from the badge counts of the page
setStatusSearch(anyRed, anyAmber) ==
    [card |-> IF anyRed THEN "red"
              ELSE IF anyAmber THEN "amber" ELSE "green",
     primary |-> "Search results scanned"]

\* whether the page holds a badge of the severity (the popup tests count > 0)
HasBadge(cards, severity) ==
    \E i \in 1..Len(cards) : severity \in Range(cards[i].badges)

\* the state of the page's scripts when nothing but the call under study runs
\* DEBOUNCE_MS of the search annotator, in ms
DEBOUNCE_MS == 500

\* the throttle of the search annotator when its script has run.  clock is
\* Date.now() counted in ms from that moment; lastThrottleRun starts at 0,
\* which is decades before; trailingAt holds the time the trailing timeout
\* is due, if one is pending; waitingSince holds the time of the oldest call
\* of throttledAnnotate that no run of annotateCards by the throttle has
\* followed, if there is one; lastRunBy is the edge that made the last run
ThrottleFresh ==
    [clock |-> 0, lastThrottleRun |-> 0 - DEBOUNCE_MS, trailingAt |-> {},
     waitingSince |-> {}, lastRunBy |-> "none"]

\* a session of SupabaseClient; token 0 stands for a missing token, and
\* NoSession for _session = null
NoSession == [access_token |-> 0, refresh_token |-> 0]

\* the rule lists of the sync, as the install handler leaves them; lastSync
\* is 0 while sourcefence_last_sync has never been written
CacheInstalled ==
    [locationRules |-> <<>>, companyRules |-> <<>>, lastSync |-> 0,
     config |-> FALSE, session |-> NoSession]

FetchKinds == {"location", "company"}

\* a fetch of performBackendSync that has not been started
NoFetch ==
    [pc |-> "none", token |-> 0, sent |-> 0, served |-> "none", grant |-> 0,
     refreshed |-> FALSE, tries |-> 0, ok |-> FALSE, threw |-> FALSE,
     data |-> <<>>]

\* no performBackendSync() is running and none has run
SyncIdle ==
    [pc |-> "idle", n |-> 0, ok |-> FALSE,
     fetch |-> [f \in FetchKinds |-> NoFetch],
     stored |-> [locationRules |-> <<>>, companyRules |-> <<>>],
     before |-> [locationRules |-> <<>>, companyRules |-> <<>>,
                 lastSync |-> 0, notified |-> 0]]

\* the popup before its loadRules() has returned
PopupUnloaded ==
    [open |-> FALSE, locationRules |-> <<>>, companyRules |-> <<>>,
     created |-> 0]

\* no backend is set up and no sync runs
BackendQuiet ==
    /\ cache = CacheInstalled
    /\ client = [config |-> FALSE, session |-> NoSession]
    /\ server = [locationRules |-> <<>>, companyRules |-> <<>>,
                 access |-> {}, refresh |-> {}, issued |-> 0]
    /\ sync = SyncIdle
    /\ popupRules = PopupUnloaded
    /\ notified = 0

QuietTab ==
    /\ BackendQuiet
    /\ url = "inA"
    /\ dom = EmptyDocument
    /\ events = 0
    /\ parser = [LinkedInParser_init(ParserFresh, "inA") EXCEPT
                    !.timer = FALSE]
    /\ annotator = annotator_init("inA")
    /\ loads = <<>>
    /\ shows = <<>>
    /\ banner = "none"
    /\ outbox = <<>>
    /\ badge = "none"
    /\ storage = InstalledStorage
    /\ inbox = <<>>
    /\ popup = PopupClosed
    /\ throttle = ThrottleFresh

InitQuiet ==
    /\ QuietTab
    /\ ret = NoCall
    /\ rulesLoaded = TRUE
    /\ now = 240
    /\ tz = 0

-----------------------------------------------------------------------------
(* SpecNorm: normalize and normalizeCompanyName applied, and applied again   *)
(* to their own result, on every text over NormAlphabet up to MaxLen.        *)

NormAlphabet == {" ", "a", "g", "C", "o", ".", Mark, "e~"}

InitNorm ==
    /\ InitQuiet
    /\ str \in SeqsUpTo(NormAlphabet, MaxLen)
    /\ candidate = NoCandidate
    /\ matchesIn = <<>>
    /\ locationRules = <<>>
    /\ companyRules = <<>>

\* the text the next application takes: the input, then the previous result
NextArg == IF ret.out = <<>> THEN str ELSE ret.out[Len(ret.out)]

CallNormalize ==
    /\ ret.fn \in {"none", "normalize"}
    /\ Len(ret.out) < 2
    /\ ret' = [fn |-> "normalize", out |-> Append(ret.out, normalize(NextArg))]
    /\ UNCHANGED <<inputVars, matcherVars, clockVars, restVars, sysVars>>

CallNormalizeCompanyName ==
    /\ ret.fn \in {"none", "normalizeCompanyName"}
    /\ Len(ret.out) < 2
    /\ ret' = [fn |-> "normalizeCompanyName",
               out |-> Append(ret.out, normalizeCompanyName(NextArg))]
    /\ UNCHANGED <<inputVars, matcherVars, clockVars, restVars, sysVars>>

NextNorm == CallNormalize \/ CallNormalizeCompanyName

SpecNorm == InitNorm /\ [][NextNorm]_vars

\* C9: normalize and normalizeCompanyName are idempotent: applying either to
\* its own result returns that result unchanged, for every text.
C9_Idempotent ==
    (ret.fn \in {"normalize", "normalizeCompanyName"} /\ Len(ret.out) = 2)
        => ret.out[2] = ret.out[1]

\* the part of C9 that the code keeps: normalizeCompanyName is idempotent
C9_CompanyNameIdempotent ==
    (ret.fn = "normalizeCompanyName" /\ Len(ret.out) = 2)
        => ret.out[2] = ret.out[1]

-----------------------------------------------------------------------------
(* SpecResolve: resolveHighestSeverity on every match list up to MaxMatches. *)

MatchUniverse ==
    [severity : {"red", "amber", "green"}, message : {"m1", "m2"}]

InitResolve ==
    /\ InitQuiet
    /\ matchesIn \in SeqsUpTo(MatchUniverse, MaxMatches)
    /\ str = <<>>
    /\ candidate = NoCandidate
    /\ locationRules = <<>>
    /\ companyRules = <<>>

CallResolveHighestSeverity ==
    /\ ret.fn = "none"
    /\ ret' = [fn |-> "resolveHighestSeverity",
               out |-> resolveHighestSeverity(matchesIn)]
    /\ UNCHANGED <<inputVars, matcherVars, clockVars, restVars, sysVars>>

NextResolve == CallResolveHighestSeverity

SpecResolve == InitResolve /\ [][NextResolve]_vars

\* the documented ranking red = 2 > amber = 1 > green = 0
DocRank(sev) == IF sev = "red" THEN 2 ELSE IF sev = "amber" THEN 1 ELSE 0

\* C3: resolveHighestSeverity returns green with the default message for an
\* empty list; for a non-empty list it returns the severity and message of
\* the first match, in list order, among those of the highest rank.
C3_ResolveHighestFirst ==
    ret.fn = "resolveHighestSeverity" =>
        IF matchesIn = <<>>
        THEN ret.out = [severity |-> "green", message |-> DefaultMessage]
        ELSE \E i \in 1..Len(matchesIn) :
                /\ ret.out = matchesIn[i]
                /\ \A j \in 1..Len(matchesIn) :
                      DocRank(matchesIn[j].severity) <= DocRank(matchesIn[i].severity)
                /\ \A j \in 1..(i - 1) :
                      DocRank(matchesIn[j].severity) < DocRank(matchesIn[i].severity)

\* [amber, red, red] with different messages resolves to the first red
C3_Witness ==
    /\ ret.fn = "resolveHighestSeverity"
    /\ matchesIn = << [severity |-> "amber", message |-> "m1"],
                      [severity |-> "red", message |-> "m2"],
                      [severity |-> "red", message |-> "m1"] >>
    /\ ret.out = [severity |-> "red", message |-> "m2"]

-----------------------------------------------------------------------------
(* SpecLoc: matchLocation on sample locations and every list, up to          *)
(* MaxRules, of well-formed location rules (string pattern, boolean active). *)

LocationSamples ==
    {Null, <<>>, T_Blank, T_BengaluruKarnatakaIndia, T_Bengaluru,
     T_WarsawPoland, T_Indianapolis, T_QuebecAccented, T_Berlin}

LocationRuleUniverse ==
    {MakeRule(T_IndiaBengaluru, "red", "m1", "true", NoExpiry),
     MakeRule(T_Poland, "amber", "m2", "true", NoExpiry),
     MakeRule(T_India, "red", "m3", "false", NoExpiry),
     MakeRule(T_BlankAlternatives, "amber", "m4", "true", NoExpiry),
     MakeRule(T_Quebec, "amber", "m5", "true", NoExpiry)}

InitLoc ==
    /\ InitQuiet
    /\ candidate \in [location : LocationSamples, company : {Null}]
    /\ locationRules \in SeqsUpTo(LocationRuleUniverse, MaxRules)
    /\ companyRules = <<>>
    /\ str = <<>>
    /\ matchesIn = <<>>

CallMatchLocation ==
    /\ ret.fn = "none"
    /\ ret' = [fn |-> "matchLocation",
               out |-> matchLocation(candidate.location, locationRules)]
    /\ UNCHANGED <<inputVars, matcherVars, clockVars, restVars, sysVars>>

NextLoc == CallMatchLocation

SpecLoc == InitLoc /\ [][NextLoc]_vars

\* a comma-separated alternative is blank when nothing is left of it after
\* normalization
NonBlank(alt) == normalize(alt) # <<>>

\* the documented condition for a location rule to apply to a location
LocationApplies(location, rule) ==
    \E alt \in Range(Split(rule.pattern)) :
        NonBlank(alt) /\ Contains(normalize(location), normalize(alt))

ActiveLocationMatch(rule) ==
    rule.active = "true" /\ LocationApplies(candidate.location, rule)

\* the matches of the rules for which Test holds, one per rule, in list order
MatchesOfSelected(rules, Test(_)) ==
    LET sel == SelectSeq(rules, Test)
    IN  [i \in 1..Len(sel) |-> MatchOf(sel[i])]

\* C4: matchLocation returns exactly one match for each active rule one of
\* whose non-blank alternatives, normalized, is a substring of the normalized
\* location, and none for any other rule, in rule-list order.
C4_MatchLocation ==
    ret.fn = "matchLocation" =>
        /\ ~ret.out.threw
        /\ ret.out.matches = MatchesOfSelected(locationRules, ActiveLocationMatch)

\* the rule "India, Bengaluru" listed twice matches "Bengaluru, Karnataka,
\* India" (both alternatives occur) once per listing
C4_Witness ==
    /\ ret.fn = "matchLocation"
    /\ candidate.location = T_BengaluruKarnatakaIndia
    /\ Len(locationRules) = 2
    /\ \A i \in 1..2 : locationRules[i].pattern = T_IndiaBengaluru
    /\ Len(ret.out.matches) = 2

-----------------------------------------------------------------------------
(* SpecCom: matchCompany on sample employers and every list, up to MaxRules, *)
(* of well-formed company rules.  It is day 10, 00:00 UTC; the browser's     *)
(* local day is 9 or 10, and day 8 has passed in every zone.                 *)

\* browser time zones, in whole hours from UTC
SampleZones == {-12, 0, 14}

CompanySamples ==
    {Null, <<>>, T_AcmeGlobalHoldings, T_AcmeWorldwide, T_AcmeCorporation,
     T_GlobexLLC, T_Initech, T_Inc}

CompanyRuleUniverse ==
    {MakeRule(T_Acme, "red", "m1", "true", NoExpiry),
     MakeRule(T_AcmeWorldwideHoldingsInc, "amber", "m2", "true", NoExpiry),
     MakeRule(T_AcmeCorp, "red", "m3", "true", DateOnly(8)),
     MakeRule(T_Inc, "red", "m4", "true", NoExpiry),
     MakeRule(T_Globex, "amber", "m5", "false", NoExpiry),
     MakeRule(T_AcmeCorp, "amber", "m6", "true", DateOnly(30))}

InitCom ==
    /\ QuietTab
    /\ ret = NoCall
    /\ rulesLoaded = TRUE
    /\ now = 240
    /\ tz \in SampleZones
    /\ candidate \in [location : {Null}, company : CompanySamples]
    /\ companyRules \in SeqsUpTo(CompanyRuleUniverse, MaxRules)
    /\ locationRules = <<>>
    /\ str = <<>>
    /\ matchesIn = <<>>

CallMatchCompany ==
    /\ ret.fn = "none"
    /\ ret' = [fn |-> "matchCompany", at |-> now,
               out |-> matchCompany(candidate.company, companyRules)]
    /\ UNCHANGED <<inputVars, matcherVars, clockVars, restVars, sysVars>>

NextCom == CallMatchCompany

SpecCom == InitCom /\ [][NextCom]_vars

\* the documented expiry: a rule is in force up to the end of the local
\* calendar day named by expires_at
InForce(rule, t) ==
    rule.expires_at.kind = "date" => LocalDay(t) <= rule.expires_at.day

\* either normalized name contains the other
EitherContains(company, rule) ==
    \/ Contains(normalizeCompanyName(company), normalizeCompanyName(rule.pattern))
    \/ Contains(normalizeCompanyName(rule.pattern), normalizeCompanyName(company))

CompanyMatchAsClaimed(rule) ==
    /\ rule.active = "true"
    /\ InForce(rule, now)
    /\ EitherContains(candidate.company, rule)

CompanyMatchAmended(rule) ==
    /\ rule.active = "true"
    /\ InForce(rule, now)
    /\ ~Falsy(candidate.company)
    /\ normalizeCompanyName(rule.pattern) # <<>>
    /\ EitherContains(candidate.company, rule)

-----------------------------------------------------------------------------
(* SpecExpiry: one company rule that names day 10 as its expires_at, matched *)
(* at every hour from day 8 to LastHour in every whole-hour time zone.       *)

InitExpiry ==
    /\ QuietTab
    /\ ret = NoCall
    /\ rulesLoaded = TRUE
    /\ now = 192
    /\ tz \in -12..14
    /\ candidate = [location |-> Null, company |-> T_AcmeCorporation]
    /\ \E active \in {"true", "false"} :
          companyRules = << MakeRule(T_AcmeCorp, "red", "m1", active, DateOnly(10)) >>
    /\ locationRules = <<>>
    /\ str = <<>>
    /\ matchesIn = <<>>

\* an hour passes
Tick ==
    /\ now < LastHour
    /\ now' = now + 1
    /\ ret' = NoCall
    /\ UNCHANGED <<inputVars, matcherVars, tz, sysVars, restVars>>

NextExpiry == CallMatchCompany \/ Tick

SpecExpiry == InitExpiry /\ [][NextExpiry]_vars

\* C6: at every instant of the local calendar day named by expires_at an
\* active rule still matches, and at every instant of the following day it
\* does not match, in every time zone.
C6_ExpiryBoundary ==
    ret.fn = "matchCompany" =>
        \A i \in 1..Len(companyRules) :
            LET rule == companyRules[i]
            IN  rule.expires_at.kind = "date" =>
                  /\ (rule.active = "true" /\ LocalDay(ret.at) = rule.expires_at.day)
                        => MatchOf(rule) \in Range(ret.out)
                  /\ LocalDay(ret.at) = rule.expires_at.day + 1
                        => MatchOf(rule) \notin Range(ret.out)

\* C6 restricted to browsers at or east of UTC, where the code keeps it
C6_ExpiryBoundaryEastOfUTC == tz >= 0 => C6_ExpiryBoundary

-----------------------------------------------------------------------------
(* Spec: one LinkedIn tab after its content scripts have loaded, the service *)
(* worker and the popup.  The clock stands still on day 10 in a UTC browser. *)

\* undelivered messages, pending banner calls and pending rule loads kept
MaxPending == 2

\* navigations, document changes and scrolls in one run
MaxEvents == 3

ProfileDocument(location, company) ==
    [location |-> location, company |-> company, cards |-> <<>>]

\* what the page at address u shows as it renders, stage by stage: profile a
\* is a location under a red rule; profile b is nothing the strategies can
\* read, then a clear location, then also an employer under a red rule
Stages(u) ==
    CASE u = "inA" -> << ProfileDocument(T_BengaluruKarnatakaIndia, Null) >>
      [] u = "inB" -> << EmptyDocument,
                         ProfileDocument(T_Berlin, Null),
                         ProfileDocument(T_Berlin, T_AcmeCorporation) >>
      [] OTHER -> << EmptyDocument >>

\* the stage after what document d shows of a profile on page u; the first
\* one when d shows another page's, and again after the last one, when the
\* page renders its profile section anew
NextStage(u, d) ==
    LET at == {i \in 1..Len(Stages(u)) :
                  /\ Stages(u)[i].location = d.location
                  /\ Stages(u)[i].company = d.company}
    IN  IF at = {} THEN {Stages(u)[1]}
        ELSE IF Max(at) < Len(Stages(u)) THEN {Stages(u)[Max(at) + 1]}
        ELSE IF Len(Stages(u)) > 1 THEN {Stages(u)[1]}
        ELSE {}

\* result cards in the document at once
MaxCards == 1

NoCardData ==
    [location |-> Null, company |-> Null, allCompanies |-> <<>>,
     pastCompanies |-> <<>>]

\* what parseCard reads from a rendered card: a clear location and employer
\* with, among the experience entries, a current employer under a red rule;
\* nothing (a promotional row)
CardContents ==
    {[location |-> T_Berlin, company |-> T_Initech,
      allCompanies |-> <<T_AcmeCorporation>>,
      pastCompanies |-> <<>>],
     NoCardData}

NewCard(id, rendered, c) ==
    [id |-> id, rendered |-> rendered, location |-> c.location,
     company |-> c.company, allCompanies |-> c.allCompanies,
     pastCompanies |-> c.pastCompanies, annotated |-> FALSE, badges |-> <<>>]

\* a placeholder the page has not rendered yet
Skeleton(id) == NewCard(id, FALSE, NoCardData)

Render(card, c) ==
    [card EXCEPT !.rendered = TRUE, !.location = c.location,
                 !.company = c.company, !.allCompanies = c.allCompanies,
                 !.pastCompanies = c.pastCompanies]

\* card ids that neither a card of the document nor a waiting probe uses
FreshIds(d) ==
    {id \in 1..MaxCards :
        /\ \A i \in 1..Len(d.cards) : d.cards[i].id # id
        /\ \A j \in 1..Len(loads) : loads[j].card.id # id}

\* the documents one change of the page on address u leads to: a search page
\* empties its results, adds a card (placeholder or rendered) or renders a
\* placeholder; any other page renders its next stage, over the result list
\* when the profile opens from one
NextDocuments(u, d) ==
    (IF isSearchPage(u)
     THEN {[d EXCEPT !.cards = <<>>]}
          \cup {[d EXCEPT !.cards = Append(d.cards, card)] :
                  card \in IF FreshIds(d) = {} THEN {}
                           ELSE {Skeleton(Min(FreshIds(d)))}
                                \cup {NewCard(Min(FreshIds(d)), TRUE, c) :
                                         c \in CardContents}}
          \cup {[d EXCEPT !.cards[i] = Render(@, c)] :
                  i \in {k \in 1..Len(d.cards) : ~d.cards[k].rendered},
                  c \in CardContents}
     ELSE {[d EXCEPT !.location = stage.location,
                     !.company = stage.company] :
              stage \in NextStage(u, d)})
    \ {d}

\* the documents page u can hold when its scripts load
Documents(u) ==
    IF isSearchPage(u) THEN {EmptyDocument} \cup NextDocuments(u, EmptyDocument)
    ELSE Range(Stages(u))

\* the tab once its content scripts have run on page url, chrome.storage.local
\* holding st
LoadedWith(st) ==
    /\ loads = << PendingLoad("init", NoCandidate, NoCard) >>
    /\ dom \in Documents(url)
    /\ events = 0
    /\ parser = LinkedInParser_init(ParserFresh, url)
    /\ annotator = annotator_init(url)
    /\ locationRules = <<>>
    /\ companyRules = <<>>
    /\ rulesLoaded = FALSE
    /\ shows = <<>>
    /\ banner = "none"
    /\ outbox = <<>>
    /\ badge = "none"
    /\ storage = st
    /\ inbox = <<>>
    /\ popup = PopupClosed
    /\ throttle = ThrottleFresh
    /\ BackendQuiet
    /\ now = 240
    /\ tz = 0
    /\ ret = NoCall
    /\ str = <<>>
    /\ candidate = NoCandidate
    /\ matchesIn = <<>>

Loaded == LoadedWith(InstalledStorage)

callVars == <<inputVars, ret>>

\* a navigation, a document change or a scroll, counted
PageEvent ==
    /\ events < MaxEvents
    /\ events' = events + 1

\* history.pushState by the page: the address changes, nothing is notified
PushState(u) ==
    /\ u # url
    /\ PageEvent
    /\ url' = u
    /\ UNCHANGED <<dom, contentVars, extensionVars, callVars, matcherVars,
                   clockVars, restVars>>

\* back / forward: the address changes and popstate is dispatched
PopState(u) ==
    /\ u # url
    /\ PageEvent
    /\ url' = u
    /\ parser' = IF parser.popstate
                 THEN LinkedInParser_checkUrlChange(parser, u)
                 ELSE parser
    /\ annotator' = IF annotator.active
                    THEN [annotator EXCEPT !.timers = @ \cup {"popstate"}]
                    ELSE annotator
    /\ UNCHANGED <<dom, loads, shows, banner, extensionVars,
                   callVars, matcherVars, clockVars, restVars>>

\* the URL poll interval of the parser fires
UrlPollTick ==
    /\ parser.urlPollTimer
    /\ parser' = LinkedInParser_checkUrlChange(parser, url)
    /\ UNCHANGED <<pageVars, annotator, loads, shows, banner, extensionVars,
                   callVars, matcherVars, clockVars, restVars>>

\* what the content scripts are about to leave behind: the annotator, the
\* cards, the queues and the record of the last probe
Content ==
    [annotator |-> annotator, cards |-> dom.cards, loads |-> loads,
     shows |-> shows, outbox |-> outbox, ret |-> ret]

\* throttledAnnotate() on page u: annotateCards at once when DEBOUNCE_MS have
\* passed since the last run (fireNow), and a trailing timeout in any case
throttledAnnotate(st, u, fireNow) ==
    LET ran == IF fireNow THEN annotateCards(st, u) ELSE st
    IN  [ran EXCEPT !.annotator.timers = @ \cup {"trailing"}]

\* the step ends with the document d carrying the cards of st.  Badges put in
\* or taken out are child-list mutations: an annotator observer that was
\* connected (observing) is notified and throttles, the parser's observer
\* runs _onMutation
Commit(st, d, p, observing) ==
    LET mutated == \E i \in 1..Len(d.cards) :
                       st.cards[i].badges # d.cards[i].badges
    IN  /\ Len(st.loads) <= MaxPending
        /\ Len(st.shows) <= MaxPending
        /\ Len(st.outbox) <= MaxPending
        /\ annotator' = IF mutated /\ observing
                        THEN [st.annotator EXCEPT
                                 !.timers = @ \cup {"trailing"}]
                        ELSE st.annotator
        /\ parser' = IF mutated /\ p.observer
                     THEN LinkedInParser_onMutation(p, url)
                     ELSE p
        /\ dom' = [d EXCEPT !.cards = st.cards]
        /\ loads' = st.loads
        /\ shows' = st.shows
        /\ outbox' = st.outbox
        /\ ret' = st.ret

\* the page changes its document; the MutationObservers are notified
DomChange(d, fireNow) ==
    /\ d \in NextDocuments(url, dom)
    /\ fireNow => annotator.observer
    /\ PageEvent
    /\ LET st == [Content EXCEPT !.cards = d.cards]
       IN  Commit(IF annotator.observer
                  THEN throttledAnnotate(st, url, fireNow)
                  ELSE st,
                  d,
                  IF parser.observer
                  THEN LinkedInParser_onMutation(parser, url)
                  ELSE parser,
                  annotator.observer)
    /\ UNCHANGED <<url, banner, badge, storage, inbox, popup, inputVars,
                   matcherVars, clockVars, restVars>>

\* one of the annotator's timeouts fires
AnnotatorTimerFires(k) ==
    /\ k \in annotator.timers
    /\ LET st == [Content EXCEPT !.annotator.timers = @ \ {k}]
           Then(ran) ==
               IF k = "initial"
               THEN [ran EXCEPT !.annotator.observer = TRUE,
                                !.annotator.rescan = TRUE]
               ELSE IF k = "urlChange"
               THEN [ran EXCEPT !.annotator.rescan = TRUE]
               ELSE ran
       IN  Commit(Then(IF k = "popstate"
                       THEN annotator_checkUrlChange(st, url)
                       ELSE annotateCards(st, url)),
                  dom, parser, annotator.observer)
    /\ UNCHANGED <<url, events, banner, badge, storage, inbox, popup, inputVars,
                   matcherVars, clockVars, restVars>>

\* the callback of the periodic re-scan interval, run on what the scripts
\* hold as st
RescanFrom(st) ==
    /\ annotator.rescan
    /\ Commit(IF ~isSearchPage(url)
              THEN [st EXCEPT !.annotator.rescan = FALSE]
              ELSE annotateCards(st, url),
              dom, parser, annotator.observer)
    /\ UNCHANGED <<url, events, banner, badge, storage, inbox, popup, inputVars,
                   matcherVars, clockVars, restVars>>

\* the periodic re-scan interval fires
RescanTick == RescanFrom(Content)

\* the user scrolls
Scroll(fireNow) ==
    /\ annotator.active
    /\ PageEvent
    /\ Commit(throttledAnnotate(Content, url, fireNow), dom, parser,
              annotator.observer)
    /\ UNCHANGED <<url, banner, badge, storage, inbox, popup, inputVars,
                   matcherVars, clockVars, restVars>>

\* the URL poll interval of the annotator fires
AnnotatorUrlPoll ==
    /\ annotator.active
    /\ Commit(annotator_checkUrlChange(Content, url), dom, parser,
              annotator.observer)
    /\ UNCHANGED <<url, events, banner, badge, storage, inbox, popup, inputVars,
                   matcherVars, clockVars, restVars>>

\* the debounce timer fires: LinkedInParser.parse()
Parse ==
    /\ parser.timer
    /\ Len(outbox) + 2 <= MaxPending
    /\ Len(shows) < MaxPending
    /\ Len(loads) < MaxPending
    /\ LET p == [parser EXCEPT !.timer = FALSE]
           location == OrNull(dom.location)
           company == OrNull(dom.company)
           last == parser.lastParsedData
       IN  IF detectVariant(url) = "null"
           THEN parser' = p /\ UNCHANGED <<loads, shows, outbox>>
           ELSE IF SameAsLast(last, location, company)
           THEN parser' = p /\ UNCHANGED <<loads, shows, outbox>>
           ELSE IF location = Null /\ company = Null
           THEN /\ parser' = [p EXCEPT !.lastParsedData = ParseFailed(url)]
                /\ outbox' = Append(outbox,
                                    Message("PARSE_RESULT", ParseFailed(url)))
                /\ UNCHANGED <<loads, shows>>
           ELSE LET data == ParseSuccess(location, company, url)
                    Then(c) == /\ loads' = c.loads
                               /\ shows' = c.shows
                               /\ outbox' = c.outbox
                IN  /\ parser' = [p EXCEPT !.lastParsedData = data]
                    /\ Then(checkCandidate(
                                [location |-> location, company |-> company],
                                loads, shows,
                                Append(outbox, Message("PARSE_RESULT", data))))
    /\ UNCHANGED <<pageVars, annotator, banner, badge, storage, inbox, popup,
                   callVars, matcherVars, clockVars, restVars>>


\* the cards after the promise chain of a probed card has settled: the badge
\* goes into the card element the chain holds, if the document still has it
SettledInto(cards, card, result) ==
    [i \in 1..Len(cards) |->
        IF cards[i].id = card.id THEN WithBadge(cards[i], result)
        ELSE cards[i]]

\* the storage read of the oldest pending loadRules() returns; the call that
\* was waiting for it runs its then-callback
LoadRulesReturns ==
    /\ loads # <<>>
    /\ LET req == Head(loads)
           loaded == LoadedRules(storage)
           st == [Content EXCEPT !.loads = Tail(loads)]
           Checked(after) ==
               [st EXCEPT !.shows = after.shows, !.outbox = after.outbox]
           Probed(settled) ==
               [st EXCEPT
                   !.cards = SettledInto(@, req.card, settled.result),
                   !.shows = settled.shows,
                   !.outbox = settled.outbox,
                   !.ret = [fn |-> "annotateSingleCard", card |-> req.card,
                            out |-> settled.result]]
       IN  /\ locationRules' = loaded.locationRules
           /\ companyRules' = loaded.companyRules
           /\ rulesLoaded' = TRUE
           /\ Commit(IF req.then = "checkCandidate"
                     THEN Checked(ThenCheckCandidate(req.candidate,
                                                     loaded.locationRules,
                                                     loaded.companyRules,
                                                     shows, outbox))
                     ELSE IF req.then = "annotateSingleCard"
                     THEN Probed(SettleCard(req.card, MatchFn,
                                            loaded.locationRules,
                                            loaded.companyRules,
                                            shows, outbox))
                     ELSE st,
                     dom, parser, annotator.observer)
    /\ UNCHANGED <<url, events, banner, badge, storage, inbox, popup, inputVars, clockVars, restVars>>

\* the banner host is put into or taken out of document.body: a child-list
\* mutation, of which the connected observers are notified
HostMutation ==
    /\ parser' = IF parser.observer
                 THEN LinkedInParser_onMutation(parser, url)
                 ELSE parser
    /\ annotator' = IF annotator.observer
                    THEN [annotator EXCEPT !.timers = @ \cup {"trailing"}]
                    ELSE annotator

\* loadSettings of the oldest pending SourceFenceBanner.show() returns
ShowSettles ==
    /\ shows # <<>>
    /\ LET options == Head(shows)
           settings == storage.settings
       IN  /\ shows' = Tail(shows)
           /\ IF \/ ~settings.enabled
                 \/ options.severity = "green" /\ ~settings.show_green_alerts
              THEN UNCHANGED <<banner, parser, annotator>>
              ELSE /\ banner' = options.severity
                   /\ HostMutation
    /\ UNCHANGED <<pageVars, loads, extensionVars, callVars, matcherVars,
                   clockVars, restVars>>

\* the auto-dismiss timer of a green banner fires, or the user dismisses it
GreenBannerRemoved ==
    /\ banner = "green"
    /\ banner' = "none"
    /\ HostMutation
    /\ UNCHANGED <<pageVars, loads, shows, extensionVars, callVars,
                   matcherVars, clockVars, restVars>>

\* the service worker and an open popup receive the oldest runtime message
Deliver ==
    /\ outbox # <<>>
    /\ LET message == Head(outbox)
       IN  /\ outbox' = Tail(outbox)
           /\ IF message.type = "PARSE_RESULT"
              THEN /\ popup' = IF popup = PopupClosed THEN popup
                               ELSE updateStatus(popup, message.data)
                   /\ UNCHANGED badge
              ELSE /\ badge' = updateBadge(message.data.severity)
                   /\ popup' = IF popup = PopupClosed THEN popup
                               ELSE IF message.data.severity = "undefined"
                               THEN popup
                               ELSE setStatusSeverity(popup,
                                                      message.data.severity)
    /\ UNCHANGED <<pageVars, contentVars, storage, inbox, callVars, matcherVars,
                   clockVars, restVars>>

\* the user opens the popup: queryActiveTab
PopupOpen ==
    /\ popup = PopupClosed
    /\ popup' =
         IF ~PopupIsLinkedIn(url)
         THEN updateStatus(popup, NoParsedData)
         ELSE IF isSearchPageUrl(url)
         THEN setStatusSearch(HasBadge(dom.cards, "red"),
                              HasBadge(dom.cards, "amber"))
         ELSE updateStatus(popup,
                  IF parser.lastParsedData = NoParsedData
                  THEN [status |-> "no_data", url |-> url]
                  ELSE parser.lastParsedData)
    /\ UNCHANGED <<pageVars, contentVars, outbox, badge, storage, inbox,
                   callVars, matcherVars, clockVars, restVars>>

PopupClose ==
    /\ popup # PopupClosed
    /\ popup' = PopupClosed
    /\ UNCHANGED <<pageVars, contentVars, outbox, badge, storage, inbox,
                   callVars, matcherVars, clockVars, restVars>>

TimerKinds ==
    {"initial", "urlChange", "retry", "trailing", "popstate", "rulesUpdated"}

\* single-profile mode: the scripts were loaded on a page that is no search
\* page, where the search annotator's init() returns at once and installs
\* nothing
Init ==
    /\ url \in {u \in Pages : ContentScriptMatches(u) /\ ~isSearchPage(u)}
    /\ Loaded

\* the pages the user moves between in single-profile mode
ProfileTour == {u \in Pages : ~isSearchPage(u)}

\* what profile mode and list mode share
TabStep ==
    \/ UrlPollTick
    \/ \E d \in NextDocuments(url, dom) : DomChange(d, FALSE)
    \/ Parse
    \/ LoadRulesReturns
    \/ ShowSettles
    \/ Deliver

Next ==
    \/ \E u \in ProfileTour : PushState(u)
    \/ \E u \in ProfileTour : PopState(u)
    \/ TabStep
    \/ GreenBannerRemoved
    \/ PopupOpen
    \/ PopupClose

Spec == Init /\ [][Next]_vars

\* list mode: the scripts were loaded on a search page; the popup stays
\* closed
InitList ==
    /\ url = "search"
    /\ Loaded

\* the pages the user moves between in list mode
ListTour == {"search", "inA"}

NextList ==
    \/ \E u \in ListTour : PushState(u)
    \/ \E u \in ListTour : PopState(u)
    \/ TabStep
    \/ \E d \in NextDocuments(url, dom) : DomChange(d, TRUE)
    \/ \E k \in TimerKinds : AnnotatorTimerFires(k)
    \/ RescanTick
    \/ \E fireNow \in BOOLEAN : Scroll(fireNow)
    \/ AnnotatorUrlPoll

SpecList == InitList /\ [][NextList]_vars

-----------------------------------------------------------------------------
(* C1: an unreadable profile shows no result *)

\* the last parse pass was made on the page now displayed, a profile page,
\* and found neither a location nor a company
UnreadableProfile ==
    /\ detectVariant(url) # "null"
    /\ parser.lastParsedData = ParseFailed(url)

ResultColours == {"red", "amber", "green"}

C1_BannerShowsNoResult == UnreadableProfile => banner \notin ResultColours

C1_BadgeShowsNoResult == UnreadableProfile => badge \notin ResultColours

C1_PopupShowsNoResult == UnreadableProfile => popup.card \notin ResultColours

\* C1: in single-profile mode, whenever the last completed parse pass for the
\* profile displayed found neither a location nor a company, neither the page
\* banner nor the toolbar badge nor the popup status shows a red, amber or
\* green result
C1_UnreadableProfileShowsNoResult ==
    /\ C1_BannerShowsNoResult
    /\ C1_BadgeShowsNoResult
    /\ C1_PopupShowsNoResult

-----------------------------------------------------------------------------
(* SpecCheck: checkCandidate called once the rules are loaded, on sample     *)
(* candidates and every pair of lists, up to MaxRules each, of well-formed   *)
(* rules.                                                                    *)

CheckLocationRules ==
    {MakeRule(T_IndiaBengaluru, "red", "m1", "true", NoExpiry),
     MakeRule(T_Poland, "amber", "m2", "true", NoExpiry),
     MakeRule(T_India, "red", "m3", "false", NoExpiry)}

CheckCompanyRules ==
    {MakeRule(T_Acme, "red", "m4", "true", DateOnly(8)),
     MakeRule(T_AcmeCorp, "amber", "m5", "true", DateOnly(30)),
     MakeRule(T_AcmeCorp, "red", "m6", "true", NoExpiry)}

InitCheck ==
    /\ QuietTab
    /\ ret = NoCall
    /\ rulesLoaded = TRUE
    /\ now = 240
    /\ tz \in SampleZones
    /\ candidate \in [location : {Null, T_BengaluruKarnatakaIndia,
                                  T_WarsawPoland},
                      company : {Null, T_AcmeCorporation}]
    /\ locationRules \in SeqsUpTo(CheckLocationRules, MaxRules)
    /\ companyRules \in SeqsUpTo(CheckCompanyRules, MaxRules)
    /\ str = <<>>
    /\ matchesIn = <<>>

\* checkCandidate(candidate) with rulesLoaded true: the then-callback runs in
\* the same turn
CallCheckCandidate ==
    /\ ret.fn = "none"
    /\ LET Then(after) ==
               /\ ret' = [fn |-> "checkCandidate", out |-> after.result]
               /\ shows' = after.shows
               /\ outbox' = after.outbox
       IN  Then(ThenCheckCandidate(candidate, locationRules, companyRules,
                                   shows, outbox))
    /\ UNCHANGED <<inputVars, matcherVars, clockVars, restVars, pageVars, parser,
                   annotator, loads, banner, badge, storage, inbox, popup>>

NextCheck == CallCheckCandidate

SpecCheck == InitCheck /\ [][NextCheck]_vars

\* a rule of the severity applies to the candidate: a location rule as C4
\* has it, a company rule as C5 has it
Applies(severity) ==
    \/ \E i \in 1..Len(locationRules) :
          /\ locationRules[i].severity = severity
          /\ ActiveLocationMatch(locationRules[i])
    \/ \E i \in 1..Len(companyRules) :
          /\ companyRules[i].severity = severity
          /\ CompanyMatchAmended(companyRules[i])

\* the lists a list can be reordered to
Reorderings(rules) ==
    {[i \in 1..Len(rules) |-> rules[p[i]]] : p \in Permutations(1..Len(rules))}

\* C2: checkCandidate resolves to red exactly when an active, non-expired red
\* rule matches the location or the company, to amber exactly when no red
\* rule does and an amber rule does, to green exactly when no rule does; the
\* severity is one of the three and is the same for every order of the lists
C2_SeverityOfCheckCandidate ==
    ret.fn = "checkCandidate" =>
        /\ ~ret.out.rejected
        /\ ret.out.severity \in {"red", "amber", "green"}
        /\ ret.out.severity = "red" <=> Applies("red")
        /\ ret.out.severity = "amber" <=> ~Applies("red") /\ Applies("amber")
        /\ ret.out.severity = "green" <=> ~Applies("red") /\ ~Applies("amber")
        /\ \A locRules \in Reorderings(locationRules),
              comRules \in Reorderings(companyRules) :
              checkCandidateResult(candidate, locRules, comRules).severity
                  = ret.out.severity

\* an amber location rule and, after it in the company list behind an expired
\* red rule, a red company rule apply: red
C2_Witness ==
    /\ ret.fn = "checkCandidate"
    /\ candidate = [location |-> T_WarsawPoland,
                    company |-> T_AcmeCorporation]
    /\ locationRules = << MakeRule(T_Poland, "amber", "m2", "true", NoExpiry) >>
    /\ companyRules = << MakeRule(T_Acme, "red", "m4", "true", DateOnly(8)),
                         MakeRule(T_AcmeCorp, "red", "m6", "true", NoExpiry) >>
    /\ ret.out.severity = "red"
    /\ ret.out.message = "m6"

-----------------------------------------------------------------------------
(* SpecRaw: the matcher and the popup's rule count on rule records as        *)
(* storage can hold them: any of pattern, severity, message and active may   *)
(* be missing from a record.                                                 *)

RawLocationRules ==
    {MakeRule(pattern, severity, message, active, NoExpiry) :
        pattern \in {T_India, Undef},
        severity \in {"red", "undefined"},
        message \in {"m1", "undefined"},
        active \in {"true", "false", "undefined"}}

RawCompanyLists ==
    {<<>>,
     << MakeRule(T_AcmeCorp, "amber", "m2", "true", NoExpiry) >>,
     << MakeRule(T_AcmeCorp, "amber", "m2", "undefined", NoExpiry) >>,
     << MakeRule(Undef, "amber", "m2", "true", NoExpiry) >>}

InitRaw ==
    /\ InitQuiet
    /\ candidate \in [location : {T_BengaluruKarnatakaIndia},
                      company : {Null, T_AcmeCorporation}]
    /\ locationRules \in SeqsUpTo(RawLocationRules, MaxRules)
    /\ companyRules \in RawCompanyLists
    /\ str = <<>>
    /\ matchesIn = <<>>

\* matchOnly(candidate) with rulesLoaded true
CallMatchOnly ==
    /\ ret.fn = "none"
    /\ ret' = [fn |-> "matchOnly",
               out |-> matchOnlyResult(candidate, locationRules, companyRules)]
    /\ UNCHANGED <<inputVars, matcherVars, clockVars, restVars, sysVars>>

\* the number the popup's stats bar shows as active
activeCount(locRules, comRules) ==
    Cardinality({i \in 1..Len(locRules) : locRules[i].active # "false"})
    + Cardinality({i \in 1..Len(comRules) : comRules[i].active # "false"})

\* updateStatsCount() in a popup that has read the same two lists
CallUpdateStatsCount ==
    /\ ret.fn = "none"
    /\ ret' = [fn |-> "updateStatsCount",
               out |-> activeCount(locationRules, companyRules)]
    /\ UNCHANGED <<inputVars, matcherVars, clockVars, restVars, sysVars>>

NextRaw ==
    \/ CallMatchLocation
    \/ CallMatchCompany
    \/ CallCheckCandidate
    \/ CallMatchOnly
    \/ CallUpdateStatsCount

SpecRaw == InitRaw /\ [][NextRaw]_vars

\* the rules the matcher goes on to evaluate: those its active test lets by
Evaluated(rules) == {i \in 1..Len(rules) : ActiveTruthy(rules[i])}

NotExcluded(rule) == rule.active # "false"

LocationMatchUnlessInactive(rule) ==
    NotExcluded(rule) /\ LocationApplies(candidate.location, rule)

\* C7: a rule is left out of matching exactly when its active field is
\* false: over rules that have a pattern, matchLocation returns a match for
\* every rule that applies and whose active field is true or missing, and
\* the matcher evaluates as many rules as the popup counts as active
C7_ExcludedExactlyWhenActiveFalse ==
    /\ (/\ ret.fn = "matchLocation"
        /\ \A i \in 1..Len(locationRules) : IsString(locationRules[i].pattern))
          => /\ ~ret.out.threw
             /\ ret.out.matches
                  = MatchesOfSelected(locationRules, LocationMatchUnlessInactive)
    /\ ret.fn = "updateStatsCount"
          => ret.out = Cardinality(Evaluated(locationRules))
                       + Cardinality(Evaluated(companyRules))

\* C7 with a rule's active field required to be present and true
C7_ExcludedUnlessActiveTrue ==
    (/\ ret.fn = "matchLocation"
     /\ \A i \in 1..Len(locationRules) : IsString(locationRules[i].pattern))
       => /\ ~ret.out.threw
          /\ ret.out.matches
               = MatchesOfSelected(locationRules, ActiveLocationMatch)

\* C10: the promise returned by checkCandidate or matchOnly never rejects,
\* whatever fields the stored rule records lack
C10_PromiseNeverRejects ==
    ret.fn \in {"checkCandidate", "matchOnly"} => ~ret.out.rejected

\* C10 over rule lists in which every active location rule has a pattern
C10_RejectsOnlyWithoutPattern ==
    (/\ ret.fn \in {"checkCandidate", "matchOnly"}
     /\ \A i \in 1..Len(locationRules) :
            ActiveTruthy(locationRules[i]) => IsString(locationRules[i].pattern))
       => ~ret.out.rejected

-----------------------------------------------------------------------------
(* C8: list-mode scanning probes without side effects *)

\* a step in which the search annotator may probe cards: annotateCards runs,
\* or the rule load a probe was waiting for returns
ProbingStep ==
    \/ \E k \in TimerKinds : AnnotatorTimerFires(k)
    \/ RescanTick
    \/ \E fireNow \in BOOLEAN : Scroll(fireNow)
    \/ \E d \in NextDocuments(url, dom) : DomChange(d, TRUE)
    \/ /\ loads # <<>>
       /\ Head(loads).then = "annotateSingleCard"
       /\ LoadRulesReturns

\* the step leaves the record of a probe behind
Probed == ret' # ret /\ ret'.fn = "annotateSingleCard"

\* C8: a probe of a result card settles as the same chain of checkCandidate
\* calls would, and no step in which the annotator probes cards adds a banner
\* call or a MATCH_RESULT message or changes the page banner or the toolbar
\* badge
C8_ProbesArePure ==
    [][/\ Probed =>
            ret'.out = SettleCard(ret'.card, "checkCandidate", locationRules',
                                  companyRules', <<>>, <<>>).result
       /\ \/ UNCHANGED <<shows, outbox, banner, badge>>
          \/ ~(Probed \/ ProbingStep)]_vars

\* back on the search page from a profile under a red rule, whose banner and
\* badge are still red, a card is probed and comes out red through its second
\* employer
C8_Witness ==
    /\ isSearchPage(url)
    /\ ret.fn = "annotateSingleCard"
    /\ ret.out.severity = "red"
    /\ banner = "red"
    /\ badge = "red"
    /\ HasBadge(dom.cards, "red")

-----------------------------------------------------------------------------
(* C11: a parse pass that reads nothing reports a failure and matches nothing *)

\* the step is a parse pass on a profile page whose extraction yields neither
\* a location nor a company
UnreadablePass ==
    /\ Parse
    /\ detectVariant(url) # "null"
    /\ OrNull(dom.location) = Null
    /\ OrNull(dom.company) = Null

\* C11: in every parse pass in which extraction yields neither a location nor
\* a company, checkCandidate is not invoked (no rule load, banner call or
\* MATCH_RESULT is started) and one PARSE_RESULT with status 'failed' is sent,
\* a status other than 'success' and other than the 'no_data' answered before
\* any pass; so also when the last pass on the page was a success
C11_UnreadablePassReportsFailure ==
    [][UnreadablePass =>
          /\ loads' = loads
          /\ shows' = shows
          /\ outbox' = Append(outbox,
                 Message("PARSE_RESULT", [status |-> "failed", url |-> url]))
          /\ parser'.lastParsedData = [status |-> "failed", url |-> url]
          /\ parser'.lastParsedData.status \notin {"success", "no_data"}]_vars

\* profile b was read (its employer is under a red rule: the banner is red),
\* the page rendered its profile section anew, and the one pass since then
\* found nothing
C11_Witness ==
    /\ url = "inB"
    /\ events = 1
    /\ dom = EmptyDocument
    /\ banner = "red"
    /\ parser.lastParsedData = [status |-> "failed", url |-> "inB"]
    /\ ~parser.timer

-----------------------------------------------------------------------------
(* SpecCard: parseCard and annotateSingleCard on one result card.  A card    *)
(* is read here from its text:                                               *)
(*   [location, headline, current, past, experience]                         *)
(* location: the text of its location element; headline: what follows "at"   *)
(* in its headline (Null when it has none); current, past: what follows "at" *)
(* in each of its "Current:" and "Past:" lines, in document order;           *)
(* experience: the employers of its experience entries dated "Present".  The *)
(* card has no element the company selectors or the last-resort scan match.  *)

T_exAcme == <<"e", "x", "-", "A", "c", "m", "e">>

T_ACME == <<"A", "C", "M", "E">>

P_ex == <<"e", "x">>

P_former == <<"f", "o", "r", "m", "e", "r">>

\* /^(ex|former)[\s\-]/i on the trimmed text
isFormerCompanyText(text) ==
    /\ ~Falsy(text)
    /\ LET t == ToLowerCase(Trim(text))
       IN  \E prefix \in {P_ex, P_former} :
              /\ OccursAt(t, prefix, 1)
              /\ Len(t) > Len(prefix)
              /\ t[Len(prefix) + 1] \in {" ", "-"}

\* extractCompanyFromHeadline on a text whose "at" is followed by co
extractCompanyFromHeadline(co) ==
    IF Falsy(co) \/ isFormerCompanyText(Trim(co)) \/ Len(Trim(co)) <= 1
    THEN Null
    ELSE Trim(co)

\* the companies of the lines, each once, in order of first appearance
RECURSIVE CompaniesOfLines(_, _, _)
CompaniesOfLines(lines, i, found) ==
    IF i > Len(lines) THEN found
    ELSE LET co == extractCompanyFromHeadline(lines[i])
         IN  IF co # Null /\ co \notin Range(found)
             THEN CompaniesOfLines(lines, i + 1, Append(found, co))
             ELSE CompaniesOfLines(lines, i + 1, found)

extractCurrentPastFromCard(text) ==
    [current |-> CompaniesOfLines(text.current, 1, <<>>),
     past |-> CompaniesOfLines(text.past, 1, <<>>)]

\* the merge of the "Current:" companies into the experience companies
RECURSIVE MergeInto(_, _, _)
MergeInto(experienceCompanies, current, c) ==
    IF c > Len(current) THEN experienceCompanies
    ELSE MergeInto(IF current[c] \in Range(experienceCompanies)
                   THEN experienceCompanies
                   ELSE Append(experienceCompanies, current[c]),
                   current, c + 1)

parseCard(text) ==
    LET currentPast == extractCurrentPastFromCard(text)
        experienceCompanies == MergeInto(text.experience, currentPast.current, 1)
        company0 == IF Len(currentPast.current) > 0
                    THEN currentPast.current[1] ELSE Null
        company1 == IF Falsy(company0)
                    THEN extractCompanyFromHeadline(text.headline)
                    ELSE company0
        company2 == IF Falsy(company1) /\ Len(experienceCompanies) > 0
                    THEN experienceCompanies[1] ELSE company1
    IN  [location |-> text.location,
         company |-> company2,
         allCompanies |-> experienceCompanies,
         pastCompanies |-> currentPast.past]

CardTexts ==
    [location : {T_Berlin, T_WarsawPoland},
     headline : {Null, T_Initech, T_exAcme, T_Globex},
     current : SeqsUpTo({T_Acme, T_Globex}, 2),
     past : SeqsUpTo({T_ACME, T_Globex}, 1),
     experience : {<<>>, <<T_AcmeCorporation>>}]

CardLocationRules ==
    << MakeRule(T_Poland, "amber", "Poland entity", "true", NoExpiry) >>

CardCompanyRules ==
    << MakeRule(T_Acme, "red", "Acme non-solicit", "true", NoExpiry),
       MakeRule(T_Globex, "amber", "Globex client", "true", NoExpiry) >>

InitCard ==
    /\ InitQuiet
    /\ locationRules = CardLocationRules
    /\ companyRules = CardCompanyRules
    /\ candidate = NoCandidate
    /\ str = <<>>
    /\ matchesIn = <<>>

\* annotateSingleCard(card, matchOnly) on a card with the text, the rules
\* being loaded: ret records the text, what parseCard read and how the
\* promise chain settled
CallAnnotateSingleCard(text) ==
    /\ ret.fn = "none"
    /\ HasData(parseCard(text))
    /\ LET Then(settled) ==
               ret' = [fn |-> "annotateSingleCard", text |-> text,
                       card |-> parseCard(text), out |-> settled.result]
       IN  Then(SettleCard(parseCard(text), MatchFn, locationRules,
                           companyRules, shows, outbox))
    /\ UNCHANGED <<inputVars, matcherVars, clockVars, restVars, sysVars>>

NextCard == \E text \in CardTexts : CallAnnotateSingleCard(text)

SpecCard == InitCard /\ [][NextCard]_vars

-----------------------------------------------------------------------------
(* C12: former employers are left out, current ones are checked *)

\* the severities of the company rules in force that match the employer
CompanySeverities(co) ==
    {companyRules[i].severity : i \in
        {k \in 1..Len(companyRules) :
            /\ companyRules[k].active = "true"
            /\ InForce(companyRules[k], now)
            /\ normalizeCompanyName(companyRules[k].pattern) # <<>>
            /\ EitherContains(co, companyRules[k])}}

\* the severities of the location rules that match the location
LocationSeverities(location) ==
    {locationRules[i].severity : i \in
        {k \in 1..Len(locationRules) :
            /\ locationRules[k].active = "true"
            /\ LocationApplies(location, locationRules[k])}}

\* the employers the card marks as current: those of its "Current:" lines
\* and of its experience entries dated "Present"
MarkedCurrent(text) ==
    Range(extractCurrentPastFromCard(text).current) \cup Range(text.experience)

\* every employer the card gives a current-affiliation signal for: those
\* marked current and the one of a headline without "ex-" or "former"
CurrentSignals(text) ==
    MarkedCurrent(text)
        \cup (IF extractCompanyFromHeadline(text.headline) = Null THEN {}
              ELSE {extractCompanyFromHeadline(text.headline)})

\* no rule fires for the card because of an employer that only a "Past:"
\* line or an "ex-"/"former" headline names
C12_FormerEmployerNeverFires ==
    ret.fn = "annotateSingleCard" =>
        ((/\ LocationSeverities(ret.text.location) = {}
          /\ \A co \in CurrentSignals(ret.text) : CompanySeverities(co) = {})
            => ret.out.severity = "green")

\* an employer the card marks as current and a rule matches gives a result
\* that is not green
C12_CurrentEmployerChecked ==
    ret.fn = "annotateSingleCard" =>
        \A co \in MarkedCurrent(ret.text) :
            CompanySeverities(co) # {} => ret.out.severity # "green"

\* C12: a company rule never fires for a card because of an employer that
\* appears only in "Past:" lines or with an "ex-"/"former" prefix, and an
\* employer the card marks as current is always checked, also one that
\* appears in a "Current:" and in a "Past:" line of the same card
C12_FormerEmployerExclusion ==
    /\ C12_FormerEmployerNeverFires
    /\ C12_CurrentEmployerChecked

\* what the code keeps of the second half: a current employer is checked
\* unless a "Past:" line names it too
C12_CurrentCheckedUnlessAlsoPast ==
    ret.fn = "annotateSingleCard" =>
        \A co \in MarkedCurrent(ret.text) :
            (/\ CompanySeverities(co) # {}
             /\ ~isPastCompany(co, ret.card.pastCompanies))
                => ret.out.severity # "green"

-----------------------------------------------------------------------------
(* C13: the card's result is the highest over all its probes *)

\* the candidates annotateSingleCard has to probe for the card parseCard read:
\* the primary one and one for every current company
ProbesOf(card) ==
    {[location |-> card.location,
      company |-> IF isPastCompany(card.company, card.pastCompanies)
                  THEN Null ELSE card.company]}
    \cup {[location |-> card.location, company |-> card.allCompanies[i]] :
             i \in {k \in 1..Len(card.allCompanies) :
                       ~isPastCompany(card.allCompanies[k], card.pastCompanies)}}

\* the highest rank among the results of the probes
HighestRank(card) ==
    Max({SEVERITY_RANK(matchOnlyResult(cand, locationRules,
                                       companyRules).severity) :
            cand \in ProbesOf(card)})

\* C13: the result attached to a card is of the highest severity over the
\* probes of its primary candidate and of every one of its current
\* companies: an amber primary probe and a current company under a red rule
\* give red
C13_HighestOverAllProbes ==
    ret.fn = "annotateSingleCard" =>
        SEVERITY_RANK(ret.out.severity) = HighestRank(ret.card)

\* what the code keeps: the highest over all probes when the primary probe
\* is green, the primary probe's result otherwise
C13_HighestWhenPrimaryGreen ==
    ret.fn = "annotateSingleCard" =>
        LET primary == matchOnlyResult(
                           [location |-> ret.card.location,
                            company |-> IF isPastCompany(ret.card.company,
                                                ret.card.pastCompanies)
                                        THEN Null ELSE ret.card.company],
                           locationRules, companyRules)
        IN  IF primary.severity = "green"
            THEN SEVERITY_RANK(ret.out.severity) = HighestRank(ret.card)
            ELSE ret.out.severity = primary.severity

-----------------------------------------------------------------------------
(* SpecStale: a search page whose one result card is a placeholder when the  *)
(* scripts load.  The re-scan interval is the clock: ret counts how often it *)
(* has fired since the annotator first saw the card, RESCAN_MS apart.        *)

\* the period of the re-scan interval, in milliseconds
RESCAN_MS == 2000

\* the staleness window of the design note, in milliseconds
CARD_STALE_MS == 60000

\* the re-scans the model follows the card for: until the window has passed
MaxScans == (CARD_STALE_MS \div RESCAN_MS) + 1

InitStale ==
    /\ url = "search"
    /\ Loaded
    /\ dom = [EmptyDocument EXCEPT !.cards = << Skeleton(1) >>]

\* the re-scan interval fires, counted
RescanCounted ==
    /\ ret.fn \in {"none", "setInterval"}
    /\ Len(ret.out) < MaxScans
    /\ RescanFrom([Content EXCEPT
                      !.ret = [fn |-> "setInterval",
                               out |-> Append(ret.out, "rescan")]])

\* the page renders the placeholder
RenderCard(fireNow) ==
    \E d \in NextDocuments(url, dom) :
        /\ Len(d.cards) = Len(dom.cards)
        /\ DomChange(d, fireNow)

NextStale ==
    \/ LoadRulesReturns
    \/ \E k \in TimerKinds : AnnotatorTimerFires(k)
    \/ RescanCounted
    \/ \E fireNow \in BOOLEAN : RenderCard(fireNow)

SpecStale == InitStale /\ [][NextStale]_vars

\* milliseconds since the annotator first scanned the card, at the least
WaitedMs == IF ret.fn = "setInterval" THEN Len(ret.out) * RESCAN_MS ELSE 0

\* the card is below the content threshold and has been since the first scan
StillPlaceholder(card) == ~card.rendered

\* a card that stayed below the content threshold for longer than the
\* staleness window is marked done
C14_StaleCardMarkedDone ==
    \A i \in 1..Len(dom.cards) :
        (StillPlaceholder(dom.cards[i]) /\ WaitedMs > CARD_STALE_MS)
            => dom.cards[i].annotated

\* a card still below the threshold within the window is not marked done,
\* however often it was scanned
C14_PendingCardNotMarked ==
    \A i \in 1..Len(dom.cards) :
        (StillPlaceholder(dom.cards[i]) /\ WaitedMs <= CARD_STALE_MS)
            => ~dom.cards[i].annotated

\* C14: a card that stays below the minimum content threshold for longer
\* than the staleness window is marked done without data and not probed
\* again; one still pending before the window has passed is not marked done
\* for having been scanned some number of times
C14_Staleness ==
    /\ C14_StaleCardMarkedDone
    /\ C14_PendingCardNotMarked

\* what the code does: no scan ever marks a card below the threshold
C14_PlaceholderNeverMarked ==
    \A i \in 1..Len(dom.cards) :
        StillPlaceholder(dom.cards[i]) => ~dom.cards[i].annotated

-----------------------------------------------------------------------------
(* SpecOff: list mode with the 'Enable SourceFence' setting switched off     *)
(* before the tab was opened.                                                *)

SwitchedOff == [InstalledStorage EXCEPT !.settings.enabled = FALSE]

InitOff ==
    /\ url = "search"
    /\ LoadedWith(SwitchedOff)

SpecOff == InitOff /\ [][NextList]_vars

C15_NoBannerWhileOff == ~storage.settings.enabled => banner = "none"

C15_NoBadgeWhileOff ==
    ~storage.settings.enabled =>
        \A i \in 1..Len(dom.cards) : dom.cards[i].badges = <<>>

\* C15: while the 'Enable SourceFence' setting is off no scan displays an
\* alert: no banner is injected on a profile page and no badge is added to
\* a search-result card
C15_NoAlertWhileOff ==
    /\ C15_NoBannerWhileOff
    /\ C15_NoBadgeWhileOff

\* a profile under a red rule was matched with the setting off: the toolbar
\* badge turned red, the page shows no banner
C15_BannerWitness ==
    /\ ~storage.settings.enabled
    /\ url = "inA"
    /\ parser.lastParsedData.status = "success"
    /\ badge = "red"
    /\ shows = <<>>
    /\ banner = "none"

-----------------------------------------------------------------------------
(* SpecMal: matchLocation and matchCompany on every pair of lists, up to     *)
(* MaxRules each, of rules some of which are malformed: a location pattern   *)
(* of blank alternatives, a company pattern of legal-form suffixes only, an  *)
(* expires_at that Date cannot parse.                                        *)

MalLocationRules ==
    {MakeRule(T_India, "red", "m1", "true", NoExpiry),
     MakeRule(T_BlankAlternatives, "amber", "m2", "true", NoExpiry),
     MakeRule(T_Poland, "amber", "m3", "true", NoExpiry)}

MalCompanyRules ==
    {MakeRule(T_Acme, "red", "m4", "true", NoExpiry),
     MakeRule(T_Inc, "red", "m5", "true", NoExpiry),
     MakeRule(T_AcmeCorp, "amber", "m6", "true", BadExpiry),
     MakeRule(T_Globex, "amber", "m7", "true", DateOnly(30))}

InitMal ==
    /\ InitQuiet
    /\ candidate \in [location : {T_BengaluruKarnatakaIndia, T_WarsawPoland},
                      company : {T_AcmeCorporation, T_GlobexLLC, T_Initech}]
    /\ locationRules \in SeqsUpTo(MalLocationRules, MaxRules)
    /\ companyRules \in SeqsUpTo(MalCompanyRules, MaxRules)
    /\ str = <<>>
    /\ matchesIn = <<>>

NextMal == CallMatchLocation \/ CallMatchCompany

SpecMal == InitMal /\ [][NextMal]_vars

\* every alternative of the pattern is empty after normalization
BlankPattern(rule) ==
    \A alt \in Range(Split(rule.pattern)) : normalize(alt) = <<>>

WellFormedLocationRule(rule) == ~BlankPattern(rule)

EmptyCompanyPattern(rule) == normalizeCompanyName(rule.pattern) = <<>>

UnparseableExpiry(rule) == rule.expires_at = BadExpiry

WellFormedCompanyRule(rule) ==
    ~EmptyCompanyPattern(rule) /\ ~UnparseableExpiry(rule)

\* C16: a malformed rule (a pattern empty after normalization, or an
\* expires_at that is no date) is skipped by itself: the matches returned
\* for a rule list are those returned for the list without its malformed
\* rules
C16_MalformedRulesSkipped ==
    /\ ret.fn = "matchLocation" =>
          ret.out = matchLocation(candidate.location,
                        SelectSeq(locationRules, WellFormedLocationRule))
    /\ ret.fn = "matchCompany" =>
          ret.out = matchCompany(candidate.company,
                        SelectSeq(companyRules, WellFormedCompanyRule))

NonEmptyCompanyPattern(rule) == ~EmptyCompanyPattern(rule)

\* what the code keeps: a rule whose pattern is empty after normalization is
\* skipped by itself
C16_EmptyPatternRulesSkipped ==
    /\ ret.fn = "matchLocation" =>
          ret.out = matchLocation(candidate.location,
                        SelectSeq(locationRules, WellFormedLocationRule))
    /\ ret.fn = "matchCompany" =>
          ret.out = matchCompany(candidate.company,
                        SelectSeq(companyRules, NonEmptyCompanyPattern))

-----------------------------------------------------------------------------
(* Rule changes.  The popup (addRule, deleteRule) or the backend sync writes *)
(* the rule lists to chrome.storage.local.  storage.onChanged then fires in  *)
(* the tab, where the matcher starts a loadRules(), and in the service       *)
(* worker, which sends RULES_UPDATED to the tab when its address is one of   *)
(* LINKEDIN_URL_PATTERNS.                                                    *)

RulesUpdated == [type |-> "RULES_UPDATED"]

\* a loadRules() that nothing waits for
ReloadRules == PendingLoad("loadRules", NoCandidate, NoCard)

\* the rule lists st are written to storage
RulesSaved(st) ==
    /\ st.locationRules # storage.locationRules
          \/ st.companyRules # storage.companyRules
    /\ st.settings = storage.settings
    /\ Len(loads) < MaxPending
    /\ Len(inbox) < MaxPending
    /\ storage' = st
    /\ loads' = Append(loads, ReloadRules)
    /\ inbox' = IF isLinkedInProfileUrl(url)
                THEN Append(inbox, RulesUpdated)
                ELSE inbox
    /\ UNCHANGED <<pageVars, parser, annotator, shows, banner, outbox, badge,
                   popup, callVars, matcherVars, clockVars, restVars>>

\* the tab receives RULES_UPDATED: the listeners of the matcher, of the
\* parser and of the search annotator run, in the order they registered
RulesUpdatedReceived ==
    /\ inbox # <<>>
    /\ inbox' = Tail(inbox)
    /\ LET last == parser.lastParsedData
           reloading == Append(loads, ReloadRules)
           Then(c) ==
               Commit([Content EXCEPT
                          !.loads = c.loads,
                          !.shows = c.shows,
                          !.outbox = c.outbox,
                          !.cards = cleanupAnnotations(@),
                          !.annotator.retryCount = 0,
                          !.annotator.timers = @ \cup {"rulesUpdated"}],
                      dom, parser, annotator.observer)
       IN  IF last.status = "success"
           THEN Then(checkCandidate([location |-> last.location,
                                     company |-> last.company],
                                    reloading, shows, outbox))
           ELSE Then([loads |-> reloading, shows |-> shows,
                      outbox |-> outbox])
    /\ UNCHANGED <<url, events, banner, badge, storage, popup, inputVars,
                   matcherVars, clockVars, restVars>>

-----------------------------------------------------------------------------
(* SpecRules: one profile displayed while the stored rule lists change.      *)

\* the rule lists as first installed, and with one location rule saved: the
\* built-in rules no longer apply
PolandOnly ==
    [InstalledStorage EXCEPT
        !.locationRules =
            << MakeRule(T_Poland, "amber", "Poland entity", "true", NoExpiry) >>]

SavedRules == {InstalledStorage, PolandOnly}

\* the tab stays on profile b, whose employer is under the built-in red rule
InitRules ==
    /\ url = "inB"
    /\ Loaded

NextRules ==
    \/ TabStep
    \/ \E st \in SavedRules : RulesSaved(st)
    \/ RulesUpdatedReceived

SpecRules == InitRules /\ [][NextRules]_vars

-----------------------------------------------------------------------------
(* C17: the re-match after a rule change uses the changed rules *)

\* the step is the arrival of RULES_UPDATED in a tab that displays a
\* successfully parsed profile
Rematch ==
    /\ RulesUpdatedReceived
    /\ parser.lastParsedData.status = "success"

\* what checkCandidate gives for the last parsed candidate under the rule
\* lists now stored
ResultUnderStoredRules ==
    LET r == checkCandidateResult(
                 [location |-> parser.lastParsedData.location,
                  company |-> parser.lastParsedData.company],
                 LoadedRules(storage).locationRules,
                 LoadedRules(storage).companyRules)
    IN  [severity |-> r.severity, message |-> r.message]

\* C17: on RULES_UPDATED, with a successfully parsed profile displayed, the
\* match step is run again on the last parsed location and company, without
\* extraction, and its banner call and MATCH_RESULT are computed from the
\* rule lists as changed, not from those loaded before the change
C17_RematchUsesChangedRules ==
    [][Rematch =>
          /\ parser'.lastParsedData = parser.lastParsedData
          /\ rulesLoaded =>
                /\ shows' = Append(shows, ResultUnderStoredRules)
                /\ outbox' = Append(outbox,
                       Message("MATCH_RESULT", ResultUnderStoredRules))]_vars

\* what the code keeps: the match step is run again without extraction, on
\* the rule lists the matcher holds when the notification arrives
C17_RematchUsesLoadedRules ==
    [][Rematch =>
          /\ parser'.lastParsedData = parser.lastParsedData
          /\ rulesLoaded =>
                LET r == checkCandidateResult(
                             [location |-> parser.lastParsedData.location,
                              company |-> parser.lastParsedData.company],
                             locationRules, companyRules)
                    result == [severity |-> r.severity, message |-> r.message]
                IN  /\ shows' = Append(shows, result)
                    /\ outbox' = Append(outbox,
                                        Message("MATCH_RESULT", result))]_vars

-----------------------------------------------------------------------------
(* SpecNav: the scripts were loaded on profile a and the user moves on to    *)
(* profile b, by a link of the page or by the forward button, and never      *)
(* back.                                                                     *)

InitNav ==
    /\ url = "inA"
    /\ Loaded

NextNav ==
    \/ PushState("inB")
    \/ PopState("inB")
    \/ TabStep

SpecNav == InitNav /\ [][NextNav]_vars

\* the parser has seen the move to profile b and has started no pass since:
\* _checkUrlChange emptied _lastParsedData and every pass that gets as far as
\* the matcher fills it again
NavigationObserved ==
    /\ url = "inB"
    /\ parser.lastUrl = "inB"
    /\ parser.lastParsedData = NoParsedData

\* the rule load a checkCandidate call has been waiting for returns after the
\* move was seen
StalePassCompletes ==
    /\ NavigationObserved
    /\ loads # <<>>
    /\ Head(loads).then = "checkCandidate"
    /\ LoadRulesReturns

\* the settings read of a SourceFenceBanner.show() call returns after the move
\* was seen
StaleShowCompletes ==
    /\ NavigationObserved
    /\ ShowSettles

(* C18: once the parser has observed the navigation from profile a to        *)
(* profile b, a match pass started for a that completes afterwards queues no *)
(* banner call and no MATCH_RESULT for a's result, and a banner call of a's  *)
(* pass that completes afterwards changes no banner.                         *)
C18_StalePassChangesNothing ==
    [][/\ StalePassCompletes => shows' = shows /\ outbox' = outbox
       /\ StaleShowCompletes => banner' = banner]_vars

-----------------------------------------------------------------------------
(* C19 under SpecList: what a reset of the search annotator leaves on the    *)
(* cards.                                                                    *)

\* the annotator resets: its checkUrlChange sees another address, or
\* RULES_UPDATED arrives
ListReset ==
    \/ annotator'.lastUrl # annotator.lastUrl
    \/ RulesUpdatedReceived

\* no card carries a 'done' mark, a severity attribute or a badge
CleanCards(cards) ==
    \A i \in 1..Len(cards) : ~cards[i].annotated /\ cards[i].badges = <<>>

\* the probe of a card resolves after a reset took the card's 'done' mark
\* away: annotateSingleCard set the mark before it called matchFn, and only
\* cleanupAnnotations removes it
StaleProbeSettles ==
    /\ loads # <<>>
    /\ Head(loads).then = "annotateSingleCard"
    /\ \E i \in 1..Len(dom.cards) :
          dom.cards[i].id = Head(loads).card.id /\ ~dom.cards[i].annotated
    /\ LoadRulesReturns

\* the reset itself clears every card
C19_ResetClearsCards == [][ListReset => CleanCards(dom'.cards)]_vars

\* a probe in flight at the reset injects nothing when it resolves
C19_StaleProbeInjectsNothing ==
    [][StaleProbeSettles =>
          \A i \in 1..Len(dom.cards) :
              dom'.cards[i].badges = dom.cards[i].badges]_vars

\* a card never has more than one badge
C19_AtMostOneBadge ==
    [](\A i \in 1..Len(dom.cards) : Len(dom.cards[i].badges) <= 1)

(* C19: after a reset of the search annotator (navigation seen, or rules     *)
(* changed) no card carries a 'done' mark, a severity attribute or a badge   *)
(* from before; a probe that was in flight at the reset injects no badge     *)
(* when it resolves; and so no card ever has more than one badge.            *)
C19_CleanSlate ==
    /\ C19_ResetClearsCards
    /\ C19_StaleProbeInjectsNothing
    /\ C19_AtMostOneBadge

-----------------------------------------------------------------------------
(* SpecDestroy: a profile tab whose parser is torn down and set up again     *)
(* through window.SourceFenceParser.                                         *)

\* LinkedInParser.destroy(): the observer is disconnected and the URL poll
\* cleared.  removeEventListener is handed a new bound function, which is
\* not the listener init() registered, so the popstate listener stays; the
\* timeout a debounced parse has pending lives in the closure that
\* _debouncedParse pointed to and is not cleared
LinkedInParser_destroy(p) ==
    [p EXCEPT !.observer = FALSE, !.urlPollTimer = FALSE,
              !.initialized = FALSE, !.lastUrl = "null",
              !.lastParsedData = NoParsedData, !.debouncedParse = FALSE]

\* a script of the page calls LinkedInParser.destroy()
Destroy ==
    /\ parser' = LinkedInParser_destroy(parser)
    /\ UNCHANGED <<pageVars, annotator, loads, shows, banner, extensionVars,
                   callVars, matcherVars, clockVars, restVars>>

\* a script of the page calls LinkedInParser.init()
InitAgain ==
    /\ parser' = LinkedInParser_init(parser, url)
    /\ UNCHANGED <<pageVars, annotator, loads, shows, banner, extensionVars,
                   callVars, matcherVars, clockVars, restVars>>

InitDestroy ==
    /\ url = "inB"
    /\ Loaded

DestroyTour == {"inA", "inB"}

NextDestroy ==
    \/ Destroy
    \/ InitAgain
    \/ \E u \in DestroyTour : PushState(u)
    \/ \E u \in DestroyTour : PopState(u)
    \/ TabStep

SpecDestroy == InitDestroy /\ [][NextDestroy]_vars

\* destroy() has returned and init() has not run since
Destroyed == ~parser.initialized

\* a debounced parse scheduled before destroy() does not fire
C20_NoParseWhileDestroyed == [][Destroyed => ~Parse]_vars

\* nothing but a call of init() brings the parser back or schedules a parse
C20_OnlyInitRevives ==
    [][Destroyed /\ ~InitAgain =>
          /\ ~parser'.initialized
          /\ parser'.timer => parser.timer]_vars

\* document changes and the URL poll reach the parser no more
C20_ObserverAndPollStopped ==
    [][/\ Destroyed => ~UrlPollTick
       /\ Destroyed /\ dom' # dom => parser' = parser]_vars

(* C20: after LinkedInParser.destroy() has returned, and until init() is     *)
(* called again, no parse pass runs (a debounced parse already scheduled     *)
(* does not fire) and mutation, URL-poll and popstate signals trigger        *)
(* nothing.                                                                  *)
C20_DestroyStopsEverything ==
    /\ C20_NoParseWhileDestroyed
    /\ C20_OnlyInitRevives
    /\ C20_ObserverAndPollStopped

-----------------------------------------------------------------------------
(* C21 under Spec: passes that find again what the last success found.       *)

\* the last successful pass ran on the address the tab shows now
LastSuccessHere ==
    /\ parser.lastParsedData.status = "success"
    /\ parser.lastParsedData.url = url

\* a pass on a profile page that reads a location or a company
ReadingPass ==
    /\ Parse
    /\ detectVariant(url) # "null"
    /\ ~(OrNull(dom.location) = Null /\ OrNull(dom.company) = Null)

\* a pass that reads what the last successful pass read
RepeatedPass ==
    /\ ReadingPass
    /\ SameAsLast(parser.lastParsedData, OrNull(dom.location),
                  OrNull(dom.company))

\* the pass goes as far as the matcher: it records its data under the address
\* of the tab and calls checkCandidate after the PARSE_RESULT message
PassIsMatched ==
    LET location == OrNull(dom.location)
        company == OrNull(dom.company)
        data == ParseSuccess(location, company, url)
        Called(c) ==
            /\ loads' = c.loads
            /\ shows' = c.shows
            /\ outbox' = c.outbox
    IN  /\ parser'.lastParsedData = data
        /\ Called(checkCandidate([location |-> location, company |-> company],
                                 loads, shows,
                                 Append(outbox, Message("PARSE_RESULT", data))))

\* the pass is skipped: no report, no matcher call, no banner call
PassIsSkipped ==
    /\ parser'.lastParsedData = parser.lastParsedData
    /\ loads' = loads
    /\ shows' = shows
    /\ outbox' = outbox

\* on one address, a repeated pass is skipped
C21_RepeatOnSameTargetSkipped ==
    [][RepeatedPass /\ LastSuccessHere => PassIsSkipped]_vars

\* on another address than the last success, a reading pass is matched
C21_FirstPassOnNewTargetMatched ==
    [][ReadingPass /\ ~LastSuccessHere => PassIsMatched]_vars

\* the same, once _checkUrlChange has seen the new address and emptied
\* _lastParsedData: the next reading pass is matched whatever it reads
C21_FirstPassAfterResetMatched ==
    [][ReadingPass /\ parser.lastParsedData.status # "success" =>
          PassIsMatched]_vars

(* C21: passes on one navigation target that read the same location and      *)
(* company as the last matched pass call the matcher and the banner no more  *)
(* (only the first did); after a navigation to another target the first      *)
(* reading pass is matched again, even if it reads what the previous         *)
(* profile's pass read.                                                      *)
C21_IdempotentPasses ==
    /\ C21_RepeatOnSameTargetSkipped
    /\ C21_FirstPassOnNewTargetMatched

-----------------------------------------------------------------------------
(* SpecReach: the scripts were loaded on a profile or on a search page, and  *)
(* the user moves between the two by links of the page.  Timers, intervals   *)
(* and storage reads that are due do run.                                    *)

InitReach ==
    /\ url \in {"inA", "search"}
    /\ Loaded

NextReach ==
    \/ \E u \in ListTour : PushState(u)
    \/ TabStep
    \/ \E d \in NextDocuments(url, dom) : DomChange(d, TRUE)
    \/ \E k \in TimerKinds : AnnotatorTimerFires(k)
    \/ RescanTick
    \/ AnnotatorUrlPoll

\* the periodic re-scan, when it ticks, changes something
RescanHasWork ==
    /\ annotator.rescan
    /\ \/ ~isSearchPage(url)
       \/ Len(dom.cards) = 0 /\ annotator.retryCount < MAX_RETRIES
       \/ /\ Len(dom.cards) > 0
          /\ \/ annotator.retryCount # 0
             \/ \E i \in 1..Len(dom.cards) :
                   /\ ~dom.cards[i].annotated
                   /\ dom.cards[i].rendered
                   /\ HasData(dom.cards[i])

\* weak fairness of every step the browser schedules by itself: intervals,
\* timeouts, storage reads and message delivery.  For the four steps that run
\* the matcher, WF_vars(A) is written out as []<>~ENABLED \/ []<><<A>>_vars
\* with the enabling condition given as a state predicate
FairReach ==
    /\ WF_vars(AnnotatorUrlPoll)
    /\ WF_vars(UrlPollTick)
    /\ WF_vars(ShowSettles)
    /\ WF_vars(Deliver)
    /\ ([]<>(loads = <<>>) \/ []<><<LoadRulesReturns>>_vars)
    /\ ([]<>(~parser.timer) \/ []<><<Parse>>_vars)
    /\ ([]<>(annotator.timers = {})
          \/ []<><<\E k \in TimerKinds : AnnotatorTimerFires(k)>>_vars)
    /\ ([]<>(~RescanHasWork) \/ []<><<RescanTick>>_vars)

SpecReach == InitReach /\ [][NextReach]_vars /\ FairReach

\* a search page shows card i rendered, with something parseCard can read,
\* and not marked 'done'
PendingWithData(i) ==
    /\ isSearchPage(url)
    /\ i <= Len(dom.cards)
    /\ dom.cards[i].rendered
    /\ HasData(dom.cards[i])
    /\ ~dom.cards[i].annotated

\* card i has been processed, or the page took it away or was left
ProcessedOrGone(i) ==
    \/ ~isSearchPage(url)
    \/ i > Len(dom.cards)
    \/ dom.cards[i].annotated

\* the scripts were loaded on a search page: init() of the annotator
\* installed its timers and listeners
StartedOnSearch == annotator.active

(* C22: in list mode, while a search-results page is shown, every rendered   *)
(* card with something to read is eventually processed and marked 'done',    *)
(* whatever page the scripts were loaded on and however the list was         *)
(* reached.                                                                  *)
C22_PendingCardProcessed ==
    \A i \in 1..MaxCards : PendingWithData(i) ~> ProcessedOrGone(i)

\* the same for tabs whose scripts were loaded on a search page
C22_ProcessedWhenStartedOnSearch ==
    \A i \in 1..MaxCards :
        (StartedOnSearch /\ PendingWithData(i)) ~> ProcessedOrGone(i)

-----------------------------------------------------------------------------
(* SpecThrottle: a search page under a stream of scroll events, with time.   *)
(* The stored rules match none of the sample cards, so that no badge is      *)
(* injected and the only calls of throttledAnnotate are those of the scroll  *)
(* listener.                                                                 *)

\* ms the clock advances in one step
ClockStep == 100

\* the clock stops here
MaxClock == 2000

\* throttledAnnotate fires at once
FiresNow_Never(th) == FALSE

\* throttledAnnotate fires at once: DEBOUNCE_MS have passed since the last run
FiresNow(th) == th.clock - th.lastThrottleRun >= DEBOUNCE_MS

\* the throttle after a call of throttledAnnotate: the pending trailing call
\* is cleared and a new one is set
Throttled(th) ==
    IF FiresNow(th)
    THEN [th EXCEPT !.lastThrottleRun = th.clock,
                    !.trailingAt = {th.clock + DEBOUNCE_MS},
                    !.waitingSince = {},
                    !.lastRunBy = "leading"]
    ELSE [th EXCEPT !.trailingAt = {th.clock + DEBOUNCE_MS},
                    !.waitingSince = IF @ = {} THEN {th.clock} ELSE @]

InitThrottle ==
    /\ url = "search"
    /\ LoadedWith(PolandOnly)

\* time passes, but not beyond the moment the trailing timeout is due
ClockTick ==
    /\ throttle.clock + ClockStep <= MaxClock
    /\ \A due \in throttle.trailingAt : throttle.clock < due
    /\ throttle' = [throttle EXCEPT !.clock = @ + ClockStep]
    /\ UNCHANGED <<inputVars, ret, matcherVars, clockVars, sysVars, syncVars>>

\* a scroll event: the listener calls throttledAnnotate
ThrottledScroll ==
    /\ annotator.active
    /\ Commit(throttledAnnotate(Content, url, FiresNow(throttle)), dom, parser,
              annotator.observer)
    /\ throttle' = Throttled(throttle)
    /\ UNCHANGED <<url, events, banner, badge, storage, inbox, popup, inputVars,
                   matcherVars, clockVars, syncVars>>

\* the trailing timeout fires
TrailingFires ==
    /\ \E due \in throttle.trailingAt : throttle.clock >= due
    /\ "trailing" \in annotator.timers
    /\ Commit(annotateCards([Content EXCEPT
                                !.annotator.timers = @ \ {"trailing"}], url),
              dom, parser, annotator.observer)
    /\ throttle' = [throttle EXCEPT !.lastThrottleRun = throttle.clock,
                                    !.trailingAt = {},
                                    !.waitingSince = {},
                                    !.lastRunBy = "trailing"]
    /\ UNCHANGED <<url, events, banner, badge, storage, inbox, popup, inputVars,
                   matcherVars, clockVars, syncVars>>

NextThrottle ==
    \/ ClockTick
    \/ ThrottledScroll
    \/ TrailingFires
    \/ LoadRulesReturns
    \/ \E k \in TimerKinds \ {"trailing"} : AnnotatorTimerFires(k)

SpecThrottle == InitThrottle /\ [][NextThrottle]_vars

\* how long the oldest unanswered call of throttledAnnotate has waited
Waited ==
    IF throttle.waitingSince = {} THEN 0
    ELSE throttle.clock - Min(throttle.waitingSince)

(* C23: under a stream of triggers less than DEBOUNCE_MS apart, which keeps  *)
(* clearing the trailing timeout, annotateCards still runs: no call of       *)
(* throttledAnnotate waits for a run longer than DEBOUNCE_MS plus one gap    *)
(* between triggers, that is, less than twice DEBOUNCE_MS.                   *)
C23_BoundedLatency == Waited < 2 * DEBOUNCE_MS

\* in the middle of a storm: the trailing timeout has never fired, the
\* leading edge has run annotateCards for the third time at least, and a
\* later trigger is waiting
C23_Witness ==
    /\ throttle.lastRunBy = "leading"
    /\ throttle.lastThrottleRun >= 2 * DEBOUNCE_MS
    /\ Waited >= DEBOUNCE_MS - ClockStep
    /\ throttle.trailingAt # {}
    /\ \A i \in 1..Len(dom.cards) : dom.cards[i].badges = <<>>

-----------------------------------------------------------------------------
(* The backend sync of the service worker.  A stored rule is kept as its id  *)
(* and its source field ("none" when the rule has no such field); the rules  *)
(* of the backend are the ids of the rows the REST API returns, in order.    *)
(* Tokens are numbers: the server takes the access tokens in server.access   *)
(* and the one refresh token in server.refresh, which it accepts once.       *)

\* performBackendSync() calls a behaviour makes at most
MaxSyncs == 2

tabVars == <<inputVars, ret, matcherVars, clockVars, sysVars, throttle>>

Session(n) == [access_token |-> n, refresh_token |-> n]

SyncRule(id, source) == [id |-> id, source |-> source]

Tagged(ids, source) == [i \in 1..Len(ids) |-> SyncRule(ids[i], source)]

isConfigured(c) == c.config

hasSession(c) == c.session.access_token # 0

\* the filter that picks the rules performBackendSync keeps
isLocalOnly(r) == r.source = "local"

\* the two lists performBackendSync stores: local-only first, then backend
MergedRules(existing, data) ==
    SelectSeq(existing, isLocalOnly) \o Tagged(data, "backend")

\* fetchLocationRules / fetchCompanyRules returns {ok: false}
FetchFailed(F) == [F EXCEPT !.pc = "done", !.ok = FALSE]

FetchThrew(F) == [F EXCEPT !.pc = "done", !.ok = FALSE, !.threw = TRUE]

FetchOk(F, rows) == [F EXCEPT !.pc = "done", !.ok = TRUE, !.data = rows]

\* supabaseFetch once the response to its first request is in.  outcome is
\* "network" when fetch() threw, "status500" for a non-2xx answer other than
\* 401, "served" when the server looked at the token; c is the client
supabaseFetch(F, outcome, authorised, rows, c) ==
    IF outcome = "network" THEN FetchThrew(F)
    ELSE IF outcome = "status500" THEN FetchFailed(F)
    ELSE IF authorised THEN FetchOk(F, rows)
    ELSE IF c.session.refresh_token # 0 /\ isConfigured(c)
         THEN [F EXCEPT !.pc = "refreshing",
                        !.sent = c.session.refresh_token]
         ELSE FetchFailed(F)

BothOk_Either(fetch) == fetch["location"].ok \/ fetch["company"].ok

\* neither result of Promise.all has ok false
BothOk(fetch) == fetch["location"].ok /\ fetch["company"].ok

RowsOf(f) == IF f = "location" THEN server.locationRules
             ELSE server.companyRules

\* performBackendSync() is called: init(), the two guards, and the two
\* requests of Promise.all, both carrying the access token of that moment
SyncStart ==
    /\ sync.pc \in {"idle", "done"}
    /\ sync.n < MaxSyncs
    /\ LET c == [config |-> cache.config, session |-> cache.session]
           called == [SyncIdle EXCEPT
                         !.n = sync.n + 1,
                         !.before = [locationRules |-> cache.locationRules,
                                     companyRules |-> cache.companyRules,
                                     lastSync |-> cache.lastSync,
                                     notified |-> notified]]
       IN  /\ client' = c
           /\ sync' = IF ~isConfigured(c) \/ ~hasSession(c)
                      THEN [called EXCEPT !.pc = "done", !.ok = FALSE]
                      ELSE [called EXCEPT
                               !.pc = "fetching",
                               !.fetch = [f \in FetchKinds |->
                                   [NoFetch EXCEPT
                                       !.pc = "request",
                                       !.token = c.session.access_token]]]
    /\ UNCHANGED <<cache, server, popupRules, notified, tabVars>>

\* the response to the first request of fetch f arrives
FetchResponds(f) ==
    /\ sync.pc = "fetching"
    /\ sync.fetch[f].pc = "request"
    /\ \E outcome \in {"network", "status500", "served"} :
           sync' = [sync EXCEPT !.fetch[f] =
                       supabaseFetch(@, outcome, @.token \in server.access,
                                     RowsOf(f), client)]
    /\ UNCHANGED <<cache, client, server, popupRules, notified, tabVars>>

\* the token endpoint answers the refresh request of fetch f: it accepts the
\* current refresh token, once, and issues a new pair
RefreshServed(f) ==
    /\ sync.pc = "fetching"
    /\ sync.fetch[f].pc = "refreshing"
    /\ \E outcome \in {"network", "served"} :
           IF outcome = "served" /\ sync.fetch[f].sent \in server.refresh
           THEN /\ server' = [server EXCEPT
                                 !.access = @ \cup {server.issued + 1},
                                 !.refresh = {server.issued + 1},
                                 !.issued = @ + 1]
                /\ sync' = [sync EXCEPT
                               !.fetch[f].pc = "refreshReply",
                               !.fetch[f].served = "ok",
                               !.fetch[f].grant = server.issued + 1]
           ELSE /\ server' = server
                /\ sync' = [sync EXCEPT
                               !.fetch[f].pc = "refreshReply",
                               !.fetch[f].served =
                                   IF outcome = "served" THEN "rejected"
                                   ELSE "network"]
    /\ UNCHANGED <<cache, client, popupRules, notified, tabVars>>

\* refreshSession() of fetch f gets its answer: a thrown fetch changes
\* nothing, a rejection clears the session in memory and in storage, a grant
\* replaces it in both (the answer of the token endpoint carries the user)
RefreshReturns(f) ==
    /\ sync.pc = "fetching"
    /\ sync.fetch[f].pc = "refreshReply"
    /\ LET F == sync.fetch[f]
           session == IF F.served = "ok" THEN Session(F.grant)
                      ELSE IF F.served = "rejected" THEN NoSession
                      ELSE client.session
       IN  /\ client' = [client EXCEPT !.session = session]
           /\ cache' = IF F.served = "network" THEN cache
                       ELSE [cache EXCEPT !.session = session]
           /\ sync' = [sync EXCEPT !.fetch[f].pc = "refreshed",
                                   !.fetch[f].refreshed = (F.served = "ok")]
    /\ UNCHANGED <<server, popupRules, notified, tabVars>>

\* supabaseFetch of fetch f goes on after refreshSession(): the retry reads
\* _session.access_token, which throws when _session is null by then
RetrySent(f) ==
    /\ sync.pc = "fetching"
    /\ sync.fetch[f].pc = "refreshed"
    /\ sync' = [sync EXCEPT !.fetch[f] =
                   IF ~@.refreshed THEN FetchFailed(@)
                   ELSE IF client.session = NoSession THEN FetchThrew(@)
                   ELSE [@ EXCEPT !.pc = "retry",
                                  !.tries = @ + 1,
                                  !.token = client.session.access_token]]
    /\ UNCHANGED <<cache, client, server, popupRules, notified, tabVars>>

\* the response to the retry of fetch f arrives; it is returned as it is
RetryResponds(f) ==
    /\ sync.pc = "fetching"
    /\ sync.fetch[f].pc = "retry"
    /\ \E outcome \in {"network", "status500", "served"} :
           sync' = [sync EXCEPT !.fetch[f] =
                       IF outcome = "network" THEN FetchThrew(@)
                       ELSE IF outcome = "served" /\ @.token \in server.access
                       THEN FetchOk(@, RowsOf(f))
                       ELSE FetchFailed(@)]
    /\ UNCHANGED <<cache, client, server, popupRules, notified, tabVars>>

\* Promise.all resolves: performBackendSync returns {ok: false} when a
\* result is not ok, otherwise it asks storage for the two lists
SyncJoins ==
    /\ sync.pc = "fetching"
    /\ \A f \in FetchKinds : sync.fetch[f].pc = "done"
    /\ sync' = IF BothOk(sync.fetch)
               THEN [sync EXCEPT !.pc = "reading"]
               ELSE [sync EXCEPT !.pc = "done", !.ok = FALSE]
    /\ UNCHANGED <<cache, client, server, popupRules, notified, tabVars>>

\* chrome.storage.local.get answers
SyncReads ==
    /\ sync.pc = "reading"
    /\ sync' = [sync EXCEPT
                   !.pc = "writing",
                   !.stored = [locationRules |-> cache.locationRules,
                               companyRules |-> cache.companyRules]]
    /\ UNCHANGED <<cache, client, server, popupRules, notified, tabVars>>

\* RULES_UPDATED rounds a write of the lists loc and com brings about by
\* storage.onChanged, which names the keys whose value has changed
ChangeRounds(loc, com) ==
    IF loc # cache.locationRules \/ com # cache.companyRules THEN 1 ELSE 0

\* the merged lists and the time of the sync are stored, the tabs are
\* notified, and performBackendSync returns {ok: true}
SyncWrites ==
    /\ sync.pc = "writing"
    /\ LET loc == MergedRules(sync.stored.locationRules,
                              sync.fetch["location"].data)
           com == MergedRules(sync.stored.companyRules,
                              sync.fetch["company"].data)
       IN  /\ cache' = [cache EXCEPT !.locationRules = loc,
                                     !.companyRules = com,
                                     !.lastSync = sync.n]
           /\ notified' = notified + ChangeRounds(loc, com) + 1
    /\ sync' = [sync EXCEPT !.pc = "done", !.ok = TRUE]
    /\ UNCHANGED <<client, server, popupRules, tabVars>>

SyncStep ==
    \/ \E f \in FetchKinds : FetchResponds(f)
    \/ \E f \in FetchKinds : RefreshServed(f)
    \/ \E f \in FetchKinds : RefreshReturns(f)
    \/ \E f \in FetchKinds : RetrySent(f)
    \/ \E f \in FetchKinds : RetryResponds(f)
    \/ SyncJoins
    \/ SyncReads
    \/ SyncWrites

-----------------------------------------------------------------------------
(* SpecSync: performBackendSync called, once and again, with nothing else    *)
(* writing to storage, from every state of configuration, session, server    *)
(* tokens, stored lists and backend rows below.                              *)

\* the tab's own variables, which the sync does not touch
TabAside ==
    /\ url = "inA"
    /\ dom = EmptyDocument
    /\ events = 0
    /\ parser = [LinkedInParser_init(ParserFresh, "inA") EXCEPT
                    !.timer = FALSE]
    /\ annotator = annotator_init("inA")
    /\ loads = <<>>
    /\ shows = <<>>
    /\ banner = "none"
    /\ outbox = <<>>
    /\ badge = "none"
    /\ storage = InstalledStorage
    /\ inbox = <<>>
    /\ popup = PopupClosed
    /\ throttle = ThrottleFresh
    /\ ret = NoCall
    /\ rulesLoaded = TRUE
    /\ now = 240
    /\ tz = 0
    /\ str = <<>>
    /\ candidate = NoCandidate
    /\ matchesIn = <<>>
    /\ locationRules = <<>>
    /\ companyRules = <<>>

\* stored location rules: none; the user's own and an earlier sync's; and
\* a rule stored without a source field ahead of them
StoredLocationLists ==
    { <<>>,
      << SyncRule("l1", "local"), SyncRule("b0", "backend"),
         SyncRule("l2", "local") >>,
      << SyncRule("m1", "none"), SyncRule("b1", "backend"),
         SyncRule("l1", "local") >> }

StoredCompanyLists ==
    { <<>>, << SyncRule("d0", "backend"), SyncRule("c1", "local") >> }

BackendLocationRows == { <<>>, << "b2", "b1" >> }

BackendCompanyRows == { << "d1" >> }

InitSync ==
    /\ TabAside
    /\ cache \in [locationRules : StoredLocationLists,
                  companyRules : StoredCompanyLists,
                  lastSync : {0},
                  config : BOOLEAN,
                  session : {NoSession, Session(1)}]
    /\ client = [config |-> FALSE, session |-> NoSession]
    /\ server \in [locationRules : BackendLocationRows,
                   companyRules : BackendCompanyRows,
                   access : {{}, {1}},
                   refresh : {{}, {1}},
                   issued : {1}]
    /\ sync = SyncIdle
    /\ popupRules = PopupUnloaded
    /\ notified = 0

NextSync == SyncStart \/ SyncStep

SpecSync == InitSync /\ [][NextSync]_vars

\* the rules of a stored list that the user created: source "local", or no
\* source field
LocallyCreated(r) == r.source \in {"local", "none"}

SyncSucceeded == sync.pc = "done" /\ sync.ok

\* the list is what was stored before (the rules picked by Keep, in their
\* order) followed by the fetched rows tagged "backend"
MergedAs(list, before, rows, Keep(_)) ==
    list = SelectSeq(before, Keep) \o Tagged(rows, "backend")

(* C24, as claimed: after a successful sync each stored list is the locally  *)
(* created rules stored before it (source "local" or no source field), in    *)
(* their order, followed by the fetched rules tagged "backend".              *)
C24_LocallyCreatedFirstThenBackend ==
    SyncSucceeded =>
        /\ MergedAs(cache.locationRules, sync.before.locationRules,
                    server.locationRules, LocallyCreated)
        /\ MergedAs(cache.companyRules, sync.before.companyRules,
                    server.companyRules, LocallyCreated)

(* C24, for rules whose source is "local" only: they are kept in order,      *)
(* the fetched rules follow tagged "backend", and every other rule is gone.  *)
C24_LocalFirstThenBackend ==
    SyncSucceeded =>
        /\ MergedAs(cache.locationRules, sync.before.locationRules,
                    server.locationRules, isLocalOnly)
        /\ MergedAs(cache.companyRules, sync.before.companyRules,
                    server.companyRules, isLocalOnly)

\* a successful sync over a list that held a rule of each origin
C24_Witness ==
    /\ SyncSucceeded
    /\ \E r \in Range(sync.before.locationRules) : r.source = "none"
    /\ \E r \in Range(sync.before.locationRules) : r.source = "backend"
    /\ \E r \in Range(sync.before.locationRules) : r.source = "local"

\* performBackendSync has returned, and it had stopped at a guard (no fetch
\* was started) or one of its fetches did not bring rows
SyncFailed ==
    /\ sync.pc = "done"
    /\ sync.n > 0
    /\ \E f \in FetchKinds : ~sync.fetch[f].ok

(* C25: a sync over a backend that is not configured, without a session, or  *)
(* with a fetch that failed returns ok = false, has left the stored location *)
(* rules, the stored company rules and the last-sync time as they were when  *)
(* it was called, and has sent no RULES_UPDATED.                             *)
C25_FailedSyncLeavesCache ==
    SyncFailed =>
        /\ ~sync.ok
        /\ cache.locationRules = sync.before.locationRules
        /\ cache.companyRules = sync.before.companyRules
        /\ cache.lastSync = sync.before.lastSync
        /\ notified = sync.before.notified

\* a sync failed because one fetch failed while the other brought rows that
\* differ from what is stored
C25_Witness ==
    /\ SyncFailed
    /\ sync.fetch["company"].ok
    /\ ~sync.fetch["location"].ok
    /\ Tagged(sync.fetch["company"].data, "backend") # cache.companyRules

\* a sync that stopped at a guard
C25_GuardWitness ==
    /\ SyncFailed
    /\ \A f \in FetchKinds : sync.fetch[f].pc = "none"
    /\ cache.locationRules # <<>>


-----------------------------------------------------------------------------
(* C30: the two fetches of one sync both get 401 and both call               *)
(* refreshSession with the same refresh token.                               *)

\* fetch f was granted the new session and fetch g, which had sent the same
\* refresh token, was turned down
DuplicateRefresh(f, g) ==
    /\ sync.fetch[f].served = "ok"
    /\ sync.fetch[g].served = "rejected"
    /\ sync.fetch[f].sent = sync.fetch[g].sent

\* refreshSession() of fetch f has dealt with its answer
RefreshDone(f) == sync.fetch[f].pc \in {"refreshed", "retry", "done"}

(* C30, the session: once both refreshSession calls have dealt with their    *)
(* answers, the session that was granted is the one in memory and in storage *)
C30_GrantedSessionStays ==
    \A f, g \in FetchKinds :
        DuplicateRefresh(f, g) /\ RefreshDone(f) /\ RefreshDone(g) =>
            /\ client.session = Session(sync.fetch[f].grant)
            /\ cache.session = Session(sync.fetch[f].grant)

(* C30, the retries: no request is sent a third time *)
C30_RetriedAtMostOnce == \A f \in FetchKinds : sync.fetch[f].tries <= 1

(* C30, the retry: the request whose refresh was granted is sent again, with *)
(* the access token that was granted                                         *)
C30_RetryCarriesGrantedToken ==
    \A f, g \in FetchKinds :
        /\ DuplicateRefresh(f, g)
        /\ sync.fetch[f].pc \in {"retry", "done"}
        => /\ sync.fetch[f].tries = 1
           /\ sync.fetch[f].token = sync.fetch[f].grant

(* C30: under two parallel 401s with one refresh token, the granted session  *)
(* stays in memory and in storage, each request is retried at most once, and *)
(* the retry after the granted refresh carries the new access token.         *)
C30_ParallelRefresh ==
    /\ C30_GrantedSessionStays
    /\ C30_RetriedAtMostOnce
    /\ C30_RetryCarriesGrantedToken

\* both refreshes answered, one granted and one turned down
C30_Witness ==
    \E f, g \in FetchKinds :
        DuplicateRefresh(f, g) /\ RefreshDone(f) /\ RefreshDone(g)


-----------------------------------------------------------------------------
(* SpecEdit: the popup edits the rule lists while syncs run.  The popup      *)
(* works on the lists its loadRules() read and writes a whole list back.     *)

\* rules a behaviour creates in the popup at most
MaxCreated == 2

\* the ids of the rules the popup creates (prefix + Date.now()), in order
CreatedIds == << "n1", "n2", "n3" >>

ListKeys == {"locationRules", "companyRules"}

\* loadRules() of the popup returns: on opening, and after a sync the popup
\* asked for has answered ok
PopupLoadRules ==
    /\ popupRules' = [popupRules EXCEPT
                         !.open = TRUE,
                         !.locationRules = cache.locationRules,
                         !.companyRules = cache.companyRules]
    /\ popupRules' # popupRules
    /\ UNCHANGED <<cache, client, server, sync, notified, tabVars>>

\* the popup stores list as the list under key t
PopupStores(t, list) ==
    /\ cache' = [cache EXCEPT ![t] = list]
    /\ notified' = notified + (IF list # cache[t] THEN 1 ELSE 0)
    /\ UNCHANGED <<client, server, sync, tabVars>>

\* the add form of list t is submitted with a pattern and a severity
addRule(t) ==
    /\ popupRules.open
    /\ popupRules.created < MaxCreated
    /\ LET rule == SyncRule(CreatedIds[popupRules.created + 1], "local")
           rules == Append(popupRules[t], rule)
       IN  /\ popupRules' = [popupRules EXCEPT ![t] = rules,
                                               !.created = @ + 1]
           /\ PopupStores(t, rules)

RulesWithout(rules, id) ==
    LET Other(r) == r.id # id IN SelectSeq(rules, Other)

\* the delete button of rule id in list t is clicked
deleteRule(t, id) ==
    /\ popupRules.open
    /\ \E r \in Range(popupRules[t]) : r.id = id
    /\ LET rules == RulesWithout(popupRules[t], id)
       IN  /\ popupRules' = [popupRules EXCEPT ![t] = rules]
           /\ PopupStores(t, rules)

RuleIds == {"l1", "b1", "d1"} \cup Range(CreatedIds)

InitEdit ==
    /\ TabAside
    /\ cache \in [locationRules : {<<>>, << SyncRule("l1", "local") >>},
                  companyRules : {<<>>},
                  lastSync : {0},
                  config : {TRUE},
                  session : {Session(1)}]
    /\ client = [config |-> FALSE, session |-> NoSession]
    /\ server = [locationRules |-> << "b1" >>, companyRules |-> << "d1" >>,
                 access |-> {1}, refresh |-> {1}, issued |-> 1]
    /\ sync = SyncIdle
    /\ popupRules = PopupUnloaded
    /\ notified = 0

NextEdit ==
    \/ PopupLoadRules
    \/ \E t \in ListKeys : addRule(t)
    \/ \E t \in ListKeys, id \in RuleIds : deleteRule(t, id)
    \/ SyncStart
    \/ \E f \in FetchKinds : FetchResponds(f)
    \/ SyncJoins
    \/ SyncReads
    \/ SyncWrites

SpecEdit == InitEdit /\ [][NextEdit]_vars

\* every rule of the stored list under t that Concerned picks is still
\* stored after the step
StillStored(t, Concerned(_)) ==
    \A r \in Range(cache[t]) : Concerned(r) => r \in Range(cache'[t])

(* C29, the popup: adding or deleting a rule in the popup removes no rule    *)
(* that a sync has stored, other than the rule being deleted.                *)
C29_EditKeepsSyncedRules ==
    [][\A t \in ListKeys :
          /\ addRule(t) =>
                LET Synced(r) == r.source = "backend"
                IN  StillStored(t, Synced)
          /\ \A id \in RuleIds :
                deleteRule(t, id) =>
                    LET SyncedOther(r) == r.source = "backend" /\ r.id # id
                    IN  StillStored(t, SyncedOther)]_vars

(* C29, the sync: the write of a sync removes no local rule from storage,    *)
(* whenever the popup stored it.                                             *)
C29_SyncKeepsLocalRules ==
    [][SyncWrites => \A t \in ListKeys : StillStored(t, isLocalOnly)]_vars

(* C29: no lost update between the popup and a backend sync, in either       *)
(* direction.                                                                *)
C29_NoLostUpdate ==
    [][/\ \A t \in ListKeys :
             /\ addRule(t) =>
                   LET Synced(r) == r.source = "backend"
                   IN  StillStored(t, Synced)
             /\ \A id \in RuleIds :
                   deleteRule(t, id) =>
                       LET SyncedOther(r) ==
                               r.source = "backend" /\ r.id # id
                       IN  StillStored(t, SyncedOther)
       /\ SyncWrites => \A t \in ListKeys : StillStored(t, isLocalOnly)]_vars

(* C29, without interleaving: an edit made on a copy that is what storage    *)
(* holds removes nothing but the rule deleted.                               *)
C29_EditOnFreshCopyKeepsRules ==
    [][\A t \in ListKeys :
          popupRules[t] = cache[t] =>
              /\ addRule(t) => LET Every(r) == TRUE IN StillStored(t, Every)
              /\ \A id \in RuleIds :
                    deleteRule(t, id) =>
                        LET Other(r) == r.id # id
                        IN  StillStored(t, Other)]_vars


-----------------------------------------------------------------------------
(* SpecNotify: the stored rule lists change while the tab shows a profile or *)
(* a page of search results.                                                 *)

InitNotify ==
    /\ url \in {"inB", "search", "talentSearch"}
    /\ Loaded

NextNotify ==
    \/ TabStep
    \/ \E st \in SavedRules : RulesSaved(st)
    \/ RulesUpdatedReceived
    \/ \E k \in TimerKinds : AnnotatorTimerFires(k)
    \/ RescanTick

SpecNotify == InitNotify /\ [][NextNotify]_vars

\* a scanner of the content scripts works on the page: the profile parser or
\* the search annotator
ScannerRuns == isProfilePage(url) \/ isSearchPage(url)

RulesUpdatedSent == inbox' = Append(inbox, RulesUpdated)

(* C26: whenever the stored rules change, the tab receives RULES_UPDATED if  *)
(* a scanner runs in it, on a profile and on any page of search results.     *)
C26_EveryScannerTabNotified ==
    [][\A st \in SavedRules :
          RulesSaved(st) /\ ScannerRuns => RulesUpdatedSent]_vars

(* C26, for the addresses under /in/, /talent/ and /sales/: the tab is sent  *)
(* RULES_UPDATED at every change of the stored rules.                        *)
C26_ListedAddressesNotified ==
    [][\A st \in SavedRules :
          RulesSaved(st) /\ isLinkedInProfileUrl(url) => RulesUpdatedSent]_vars

\* the search annotator is at work on /search/results/ and a message is on
\* its way to the tab: no state of SpecNotify is like this
C26_SearchResultsNotified ==
    /\ url = "search"
    /\ annotator.active
    /\ inbox # <<>>


-----------------------------------------------------------------------------
(* C27, under SpecCom: a candidate company made of legal-form suffixes only, *)
(* which normalizeCompanyName turns into the empty text.                     *)

SuffixOnlyCompany ==
    /\ ~Falsy(candidate.company)
    /\ normalizeCompanyName(candidate.company) = <<>>

(* C27: matchCompany returns no match for a company whose normalized name is *)
(* empty, as it does for a null or empty company.                            *)
C27_SuffixOnlyCompanyMatchesNothing ==
    ret.fn = "matchCompany" /\ SuffixOnlyCompany => ret.out = <<>>

(* C27, the null or empty company: matchCompany returns no match.            *)
C27_NoCompanyMatchesNothing ==
    ret.fn = "matchCompany" /\ Falsy(candidate.company) => ret.out = <<>>

\* matchCompany was called without a company, over a rule that is in force
C27_NoCompanyWitness ==
    /\ ret.fn = "matchCompany"
    /\ candidate.company = <<>>
    /\ \E i \in 1..Len(companyRules) :
           /\ ActiveTruthy(companyRules[i])
           /\ companyRules[i].expires_at = NoExpiry
           /\ NonEmptyCompanyPattern(companyRules[i])


-----------------------------------------------------------------------------
(* C28, under SpecRules: what the matcher holds when a loadRules() returns.  *)

\* a rule list as an array: what was stored, or none when nothing was
StoredList(v) == IF IsArray(v) THEN v ELSE <<>>

NothingStored ==
    ~IsArray(storage.locationRules) /\ ~IsArray(storage.companyRules)

MatcherHoldsStoredRules ==
    /\ locationRules' = StoredList(storage.locationRules)
    /\ companyRules' = StoredList(storage.companyRules)

MatcherHoldsDefaults ==
    /\ locationRules' = DEFAULT_LOCATION_RULES
    /\ companyRules' = DEFAULT_COMPANY_RULES

C28_NonEmptyStorageEvaluated ==
    [][/\ LoadRulesReturns
       /\ StoredList(storage.locationRules) \o
              StoredList(storage.companyRules) # <<>>
       => MatcherHoldsStoredRules]_vars

(* C28, after the install handler: while both stored lists are empty arrays  *)
(* and no load is under way, the matcher holds no rule, so that every        *)
(* candidate resolves to green.                                              *)
C28_EmptyListsGiveGreen ==
    /\ storage.locationRules = <<>>
    /\ storage.companyRules = <<>>
    /\ loads = <<>>
    /\ rulesLoaded
    => locationRules = <<>> /\ companyRules = <<>>

\* a load has completed over a stored rule
C28_NonEmptyWitness ==
    /\ rulesLoaded
    /\ storage = PolandOnly
    /\ locationRules = PolandOnly.locationRules
    /\ companyRules = <<>>

=============================================================================
